---------------------------- MODULE Spec2Model ----------------------------
(***************************************************************************)
(* SevenTTY Symbols font generator (tools/generate_symbolfont.py).         *)
(*                                                                         *)
(* The generator renders every glyph of the symbol repertoire onto a       *)
(* fixed cell, packs the cells of one point size into a monochrome strike, *)
(* and prints one NFNT resource per configured size followed by one FOND   *)
(* resource, as Rez source text (hex strings).                             *)
(*                                                                         *)
(* Python lists are sequences: the element at Python index k is element    *)
(* k + 1 of the sequence (pixels[y][x] is pixels[y + 1][x + 1]).  Python   *)
(* str values are strings.                                                 *)
(*                                                                         *)
(* Spec follows emit_rez, the program's one entry point.  CanvasSpec,      *)
(* RenderSpec and CallsSpec call the Bitmap methods and render_glyph on    *)
(* their own, with arguments emit_rez never passes.                        *)
(***************************************************************************)
EXTENDS Integers, Sequences, FiniteSets, TLC

(***************************************************************************)
(* Configuration tables                                                    *)
(***************************************************************************)

\* (pt_size, cell_width, cell_height, ascent, descent, leading)
MONACO_METRICS ==
   <<
      << 9,  6, 12,  9, 2, 0>>,
      <<10,  6, 14, 10, 2, 1>>,
      <<12,  7, 17, 12, 3, 1>>,
      <<14,  8, 19, 14, 3, 1>>,
      <<18, 11, 25, 18, 4, 2>>,
      <<24, 14, 33, 24, 6, 2>>,
      <<36, 22, 49, 36, 9, 3>>
   >>

FOND_ID == 200

NFNT_BASE_ID == 200

FIRST_CHAR == \h20

LAST_CHAR == \hAD

\* The dict literal, as written: <<unicode codepoint, char code>> in source order.
GLYPH_MAP ==
   <<
      <<\h2500, \h9B>>, <<\h2502, \h21>>, <<\h250C, \h22>>, <<\h2510, \h23>>,
      <<\h2514, \h24>>, <<\h2518, \h25>>, <<\h251C, \h26>>, <<\h2524, \h27>>,
      <<\h252C, \h28>>, <<\h2534, \h29>>, <<\h253C, \h2A>>, <<\h2550, \h2B>>,
      <<\h2551, \h2C>>, <<\h2554, \h2D>>, <<\h2557, \h2E>>, <<\h255A, \h2F>>,
      <<\h255D, \h30>>, <<\h2560, \h31>>, <<\h2563, \h32>>, <<\h2566, \h33>>,
      <<\h2569, \h34>>, <<\h256C, \h35>>, <<\h2552, \h36>>, <<\h2553, \h37>>,
      <<\h2555, \h38>>, <<\h2556, \h39>>, <<\h2558, \h3A>>, <<\h2559, \h3B>>,
      <<\h255B, \h3C>>, <<\h255C, \h3D>>, <<\h255E, \h3E>>, <<\h255F, \h3F>>,
      <<\h2561, \h40>>, <<\h2562, \h41>>, <<\h2564, \h42>>, <<\h2565, \h43>>,
      <<\h2567, \h44>>, <<\h2568, \h45>>, <<\h256A, \h46>>, <<\h256B, \h47>>,
      <<\h2574, \h48>>, <<\h2575, \h49>>, <<\h2576, \h4A>>, <<\h2577, \h4B>>,
      <<\h2501, \h4C>>, <<\h2503, \h4D>>, <<\h254B, \h4E>>, <<\h2504, \h4F>>,
      <<\h2580, \h50>>, <<\h2581, \h51>>, <<\h2582, \h52>>, <<\h2583, \h53>>,
      <<\h2584, \h54>>, <<\h2585, \h55>>, <<\h2586, \h56>>, <<\h2587, \h57>>,
      <<\h2588, \h58>>, <<\h2589, \h59>>, <<\h258A, \h5A>>, <<\h258B, \h5B>>,
      <<\h258C, \h5C>>, <<\h258D, \h5D>>, <<\h258E, \h5E>>, <<\h258F, \h5F>>,
      <<\h2590, \h60>>, <<\h2591, \h61>>, <<\h2592, \h62>>, <<\h2593, \h63>>,
      <<\h2594, \h64>>, <<\h2595, \h65>>, <<\h25A0, \h66>>, <<\h25A1, \h67>>,
      <<\h25AA, \h68>>, <<\h25AB, \h69>>, <<\h25B2, \h6A>>, <<\h25B6, \h6B>>,
      <<\h25BC, \h6C>>, <<\h25C0, \h6D>>, <<\h25CB, \h6E>>, <<\h25CF, \h6F>>,
      <<\h2660, \h70>>, <<\h2663, \h71>>, <<\h2665, \h72>>, <<\h2666, \h73>>,
      <<\h263A, \h74>>, <<\h263B, \h75>>, <<\h266A, \h76>>, <<\h266B, \h77>>,
      <<\h2713, \h78>>, <<\h2717, \h79>>, <<\h2190, \h7A>>, <<\h2191, \h7B>>,
      <<\h2192, \h7C>>, <<\h2193, \h7D>>, <<\h2194, \h7E>>, <<\h23F5, \h7F>>,
      <<\h2217, \h80>>, <<\h2722, \h81>>, <<\h2733, \h82>>, <<\h273B, \h83>>,
      <<\h273D, \h84>>, <<\h280B, \h85>>, <<\h2819, \h86>>, <<\h2839, \h87>>,
      <<\h2838, \h88>>, <<\h283C, \h89>>, <<\h2834, \h8A>>, <<\h2826, \h8B>>,
      <<\h2827, \h8C>>, <<\h2807, \h8D>>, <<\h280F, \h8E>>, <<\h2315, \h8F>>,
      <<\h2596, \h90>>, <<\h2597, \h91>>, <<\h2598, \h92>>, <<\h2599, \h93>>,
      <<\h259A, \h94>>, <<\h259B, \h95>>, <<\h259C, \h96>>, <<\h259D, \h97>>,
      <<\h259E, \h98>>, <<\h259F, \h99>>, <<\h276F, \h9A>>, <<\h25C6, \h9C>>,
      <<\h25C7, \h9D>>, <<\h2714, \h9E>>, <<\h2718, \h9F>>, <<\h25FB, \hA0>>,
      <<\h25FC, \hA1>>, <<\h25C9, \hA2>>, <<\h25EF, \hA3>>, <<\h2610, \hA4>>,
      <<\h2612, \hA5>>, <<\h2605, \hA6>>, <<\h2630, \hA7>>, <<\h25B3, \hA8>>,
      <<\h26A0, \hA9>>, <<\h25CE, \hAA>>, <<\h25CC, \hAB>>, <<\h2139, \hAC>>,
      <<\h00B7, \hAD>>
   >>

\* Variant: the second symbol of the literal is given the first one's code.
GLYPH_MAP_items_code_reused ==
   [k \in 1..Len(GLYPH_MAP) |->
      IF k = 2 THEN <<GLYPH_MAP[2][1], GLYPH_MAP[1][2]>> ELSE GLYPH_MAP[k]]

\* Python dict semantics of the literal: a key keeps the position of its
\* first occurrence and the value of its last one.
GLYPH_MAP_items ==
   LET n == Len(GLYPH_MAP)
       first == {k \in 1..n : \A j \in 1..(k-1) : GLYPH_MAP[j][1] # GLYPH_MAP[k][1]}
       lastOf(k) == CHOOSE j \in k..n :
                       /\ GLYPH_MAP[j][1] = GLYPH_MAP[k][1]
                       /\ \A m \in (j+1)..n : GLYPH_MAP[m][1] # GLYPH_MAP[k][1]
   IN  [k \in first |-> <<GLYPH_MAP[k][1], GLYPH_MAP[lastOf(k)][2]>>]

\* CODE_TO_UNICODE = {v: k for k, v in GLYPH_MAP.items()}: the last item
\* (in item order) carrying a code wins.
CODE_TO_UNICODE ==
   LET items == GLYPH_MAP_items
       codes == {items[k][2] : k \in DOMAIN items}
       win(c) == CHOOSE k \in DOMAIN items :
                    /\ items[k][2] = c
                    /\ \A j \in DOMAIN items : items[j][2] = c => j <= k
   IN  [c \in codes |-> items[win(c)][1]]

(***************************************************************************)
(* Python helpers                                                          *)
(***************************************************************************)

Max(a, b) == IF a >= b THEN a ELSE b

Min(a, b) == IF a <= b THEN a ELSE b

\* range(a, b)
range(a, b) == a..(b - 1)

(***************************************************************************)
(* class Bitmap                                                            *)
(***************************************************************************)

\* Bitmap.__init__: an all-zero grid; err records an IndexError.
Bitmap(width, height) ==
   [w |-> width, h |-> height, err |-> FALSE,
    pixels |-> [y \in 1..height |-> [x \in 1..width |-> 0]]]

\* self.pixels[y][x] = 1 for every <<x, y>> of S, with Python's list
\* indexing: an index in [-len, 0) addresses from the end, an index outside
\* [-len, len) raises IndexError.
store(bm, S) ==
   IF \E p \in S : p[1] < -bm.w \/ p[1] >= bm.w \/ p[2] < -bm.h \/ p[2] >= bm.h
   THEN [bm EXCEPT !.err = TRUE]
   ELSE [bm EXCEPT !.pixels =
           [y1 \in 1..bm.h |-> [x1 \in 1..bm.w |->
              LET x == x1 - 1
                  y == y1 - 1
              IN  IF \/ <<x, y>> \in S
                     \/ <<x - bm.w, y>> \in S
                     \/ <<x, y - bm.h>> \in S
                     \/ <<x - bm.w, y - bm.h>> \in S
                  THEN 1 ELSE bm.pixels[y1][x1]]]]

\* Variant: one module-level grid, handed out again by every Bitmap().
new_rows_shared_buffer(hp, height) == [y \in 1..height |-> y]

\* Bitmap.__init__, line 222: the list comprehension builds one new list per
\* row; given the row lists hp that exist, the identities of the new ones.
new_rows(hp, height) == [y \in 1..height |-> Len(hp) + y]

\* Variant: the pixel inverted instead of set.
set_toggle(bm, x, y) ==
   IF 0 <= x /\ x < bm.w /\ 0 <= y /\ y < bm.h
   THEN [bm EXCEPT !.pixels[y + 1][x + 1] = 1 - @]
   ELSE bm

\* Variant: no bounds test before the write.
set_unguarded(bm, x, y) == store(bm, {<<x, y>>})

\* Bitmap.set
set(bm, x, y) ==
   IF 0 <= x /\ x < bm.w /\ 0 <= y /\ y < bm.h
   THEN [bm EXCEPT !.pixels[y + 1][x + 1] = 1]
   ELSE bm

\* Variant: width and height exchanged in the clipping.
fill_rect_clipped_to_transpose(bm, x0, y0, x1, y1) ==
   store(bm, {p \in range(Max(0, x0), Min(bm.w, Min(bm.h, x1)))
                      \X range(Max(0, y0), Min(bm.h, Min(bm.w, y1))) : TRUE})

\* Variant: the left and top edges not clipped to 0.
fill_rect_unclipped_low(bm, x0, y0, x1, y1) ==
   store(bm, {p \in range(x0, Min(bm.w, x1)) \X range(y0, Min(bm.h, y1)) : TRUE})

\* Variant: the right and bottom edges included.
fill_rect_inclusive(bm, x0, y0, x1, y1) ==
   store(bm, {p \in range(Max(0, x0), Min(bm.w, x1 + 1)) \X range(Max(0, y0), Min(bm.h, y1 + 1)) : TRUE})

\* Bitmap.fill_rect
fill_rect(bm, x0, y0, x1, y1) ==
   store(bm, {p \in range(Max(0, x0), Min(bm.w, x1)) \X range(Max(0, y0), Min(bm.h, y1)) : TRUE})

\* Variant: the line stops one pixel early.
hline_one_short(bm, y, x0, x1) ==
   store(bm, {p \in range(Max(0, x0), Min(bm.w, x1 - 1)) \X {y} : 0 <= y /\ y < bm.h})

\* Bitmap.hline
hline(bm, y, x0, x1) ==
   store(bm, {p \in range(Max(0, x0), Min(bm.w, x1)) \X {y} : 0 <= y /\ y < bm.h})

\* Variant: the line stops one pixel early.
vline_one_short(bm, x, y0, y1) ==
   store(bm, {p \in {x} \X range(Max(0, y0), Min(bm.h, y1 - 1)) : 0 <= x /\ x < bm.w})

\* Bitmap.vline
vline(bm, x, y0, y1) ==
   store(bm, {p \in {x} \X range(Max(0, y0), Min(bm.h, y1)) : 0 <= x /\ x < bm.w})

\* Variant: the thresholds compared with > instead of >=.
dither_thresholds_exclusive(bm, density) ==
   store(bm, {p \in range(0, bm.w) \X range(0, bm.h) :
                IF density > 75 THEN ~(p[1] % 2 = 0 /\ p[2] % 2 = 0)
                ELSE IF density > 50 THEN (p[1] + p[2]) % 2 = 0
                ELSE IF density > 25 THEN p[1] % 2 = 0 /\ p[2] % 2 = 0
                ELSE FALSE})

\* Bitmap.dither; density is given in hundredths (0.25 -> 25).
dither(bm, density) ==
   store(bm, {p \in range(0, bm.w) \X range(0, bm.h) :
                IF density >= 75 THEN ~(p[1] % 2 = 0 /\ p[2] % 2 = 0)
                ELSE IF density >= 50 THEN (p[1] + p[2]) % 2 = 0
                ELSE IF density >= 25 THEN p[1] % 2 = 0 /\ p[2] % 2 = 0
                ELSE FALSE})

\* Bitmap.fill_circle
fill_circle(bm, cx, cy, r) ==
   store(bm, {p \in range(0, bm.w) \X range(0, bm.h) :
                (p[1] - cx) * (p[1] - cx) + (p[2] - cy) * (p[2] - cy) <= r * r})

abs(v) == IF v < 0 THEN -v ELSE v

\* Bitmap.outline_circle; abs(d - r*r) <= r * 1.5 is compared doubled, in
\* integers (both sides are exact in binary floating point).
outline_circle(bm, cx, cy, r) ==
   store(bm, {p \in range(0, bm.w) \X range(0, bm.h) :
                2 * abs((p[1] - cx) * (p[1] - cx) + (p[2] - cy) * (p[2] - cy) - r * r) <= 3 * r})

SetMin(S) == CHOOSE v \in S : \A u \in S : v <= u

SetMax(S) == CHOOSE v \in S : \A u \in S : v >= u

\* Variant: the quotient rounded down instead of toward zero.
int_div_floor(n, d) ==
   LET num == IF d < 0 THEN -n ELSE n
       den == IF d < 0 THEN -d ELSE d
   IN  IF num >= 0 THEN num \div den ELSE -(((-num) + den - 1) \div den)

\* int() of the quotient n / d (d # 0): truncation toward zero.
int_div(n, d) ==
   LET num == IF d < 0 THEN -n ELSE n
       den == abs(d)
   IN  IF num >= 0 THEN num \div den ELSE -((-num) \div den)

\* Bitmap.fill_triangle; pts is <<p1, p2, p3>>, each <<x, y>>.  The
\* intersection x = p0.x + t * (p1.x - p0.x), t = (y - p0.y) / (p1.y - p0.y),
\* is kept as an exact quotient; int() is monotone, so the int() of the
\* smallest and of the largest intersection are the smallest and the largest
\* of the int() values.
fill_triangle(bm, pts) ==
   LET ys == {pts[i][2] : i \in 1..3}
       min_y == Max(0, SetMin(ys))
       max_y == Min(bm.h - 1, SetMax(ys))
       p0(i) == pts[i]
       p1(i) == pts[(i % 3) + 1]
       crossing(y) ==
          {i \in 1..3 : /\ p0(i)[2] # p1(i)[2]
                        /\ Min(p0(i)[2], p1(i)[2]) <= y
                        /\ y <= Max(p0(i)[2], p1(i)[2])}
       int_x(i, y) ==
          int_div(p0(i)[1] * (p1(i)[2] - p0(i)[2]) + (y - p0(i)[2]) * (p1(i)[1] - p0(i)[1]),
                  p1(i)[2] - p0(i)[2])
       span(y) ==
          IF Cardinality(crossing(y)) >= 2
          THEN range(Max(0, SetMin({int_x(i, y) : i \in crossing(y)})),
                     Min(bm.w, SetMax({int_x(i, y) : i \in crossing(y)}) + 1))
          ELSE {}
   IN  store(bm, {p \in range(0, bm.w) \X range(min_y, max_y + 1) : p[1] \in span(p[2])})

(***************************************************************************)
(* render_glyph                                                            *)
(***************************************************************************)

\* for i in range(start, stop, step): body(bm, i); an exception raised by the
\* body leaves the loop.
RECURSIVE for_range(_, _, _, _, _)
for_range(body(_, _), bm, start, stop, step) ==
   IF start >= stop THEN bm
   ELSE LET nxt == body(bm, start)
        IN  IF nxt.err THEN nxt
            ELSE for_range(body, nxt, start + step, stop, step)

\* int(c + r * math.cos(math.radians(angle_deg))) for angle_deg = 0, 30, ..., 330,
\* as IEEE-754 double arithmetic evaluates it (truncation of a rounded sum, so
\* not always the floor of the exact real value); tabulated for the centres and
\* radii the configured cells produce.
int_cos(c, r, angle_deg) ==
   CASE c = 3 /\ r = 2 ->
           <<5, 4, 4, 3, 2, 1, 1, 1, 1, 2, 4, 4>>[angle_deg \div 30 + 1]
     [] c = 4 /\ r = 3 ->
           <<7, 6, 5, 4, 2, 1, 1, 1, 2, 3, 5, 6>>[angle_deg \div 30 + 1]
     [] c = 5 /\ r = 4 ->
           <<9, 8, 7, 5, 3, 1, 1, 1, 2, 4, 7, 8>>[angle_deg \div 30 + 1]
     [] c = 7 /\ r = 6 ->
           <<13, 12, 10, 7, 4, 1, 1, 1, 3, 6, 10, 12>>[angle_deg \div 30 + 1]
     [] c = 11 /\ r = 10 ->
           <<21, 19, 16, 11, 6, 2, 1, 2, 5, 10, 16, 19>>[angle_deg \div 30 + 1]

\* int(c + r * math.sin(math.radians(angle_deg))) for angle_deg = 0, 30, ..., 330,
\* as IEEE-754 double arithmetic evaluates it (truncation of a rounded sum, so
\* not always the floor of the exact real value); tabulated for the centres and
\* radii the configured cells produce.
int_sin(c, r, angle_deg) ==
   CASE c = 6 /\ r = 2 ->
           <<6, 7, 7, 8, 7, 7, 6, 5, 4, 4, 4, 4>>[angle_deg \div 30 + 1]
     [] c = 7 /\ r = 2 ->
           <<7, 8, 8, 9, 8, 8, 7, 6, 5, 5, 5, 5>>[angle_deg \div 30 + 1]
     [] c = 8 /\ r = 2 ->
           <<8, 9, 9, 10, 9, 9, 8, 7, 6, 6, 6, 6>>[angle_deg \div 30 + 1]
     [] c = 9 /\ r = 3 ->
           <<9, 10, 11, 12, 11, 10, 9, 7, 6, 6, 6, 7>>[angle_deg \div 30 + 1]
     [] c = 12 /\ r = 4 ->
           <<12, 14, 15, 16, 15, 14, 12, 10, 8, 8, 8, 9>>[angle_deg \div 30 + 1]
     [] c = 16 /\ r = 6 ->
           <<16, 19, 21, 22, 21, 19, 16, 13, 10, 10, 10, 12>>[angle_deg \div 30 + 1]
     [] c = 24 /\ r = 10 ->
           <<24, 29, 32, 34, 32, 29, 24, 19, 15, 14, 15, 18>>[angle_deg \div 30 + 1]

\* render_glyph, lines 314-345
box_single_cps ==
   {\h2500, \h2502, \h250C, \h2510, \h2514, \h2518, \h251C, \h2524,
    \h252C, \h2534, \h253C}

box_single(unicode_cp, bm, w, h, cx, cy) ==
   CASE unicode_cp = \h2500 ->  \* horizontal
            LET b1 == hline(bm, cy, 0, w)
            IN  b1
      [] unicode_cp = \h2502 ->  \* vertical
            LET b1 == vline(bm, cx, 0, h)
            IN  b1
      [] unicode_cp = \h250C ->  \* down-right
            LET b1 == hline(bm, cy, cx, w)
                b2 == vline(b1, cx, cy, h)
            IN  b2
      [] unicode_cp = \h2510 ->  \* down-left
            LET b1 == hline(bm, cy, 0, cx + 1)
                b2 == vline(b1, cx, cy, h)
            IN  b2
      [] unicode_cp = \h2514 ->  \* up-right
            LET b1 == hline(bm, cy, cx, w)
                b2 == vline(b1, cx, 0, cy + 1)
            IN  b2
      [] unicode_cp = \h2518 ->  \* up-left
            LET b1 == hline(bm, cy, 0, cx + 1)
                b2 == vline(b1, cx, 0, cy + 1)
            IN  b2
      [] unicode_cp = \h251C ->  \* vertical-right
            LET b1 == vline(bm, cx, 0, h)
                b2 == hline(b1, cy, cx, w)
            IN  b2
      [] unicode_cp = \h2524 ->  \* vertical-left
            LET b1 == vline(bm, cx, 0, h)
                b2 == hline(b1, cy, 0, cx + 1)
            IN  b2
      [] unicode_cp = \h252C ->  \* horizontal-down
            LET b1 == hline(bm, cy, 0, w)
                b2 == vline(b1, cx, cy, h)
            IN  b2
      [] unicode_cp = \h2534 ->  \* horizontal-up
            LET b1 == hline(bm, cy, 0, w)
                b2 == vline(b1, cx, 0, cy + 1)
            IN  b2
      [] unicode_cp = \h253C ->  \* cross
            LET b1 == hline(bm, cy, 0, w)
                b2 == vline(b1, cx, 0, h)
            IN  b2

\* render_glyph, lines 347-405
box_double_cps ==
   {\h2550, \h2551, \h2554, \h2557, \h255A, \h255D, \h2560, \h2563,
    \h2566, \h2569, \h256C}

box_double(unicode_cp, bm, w, h, cx, cy) ==
   CASE unicode_cp = \h2550 ->  \* double horizontal
            LET b1 == hline(bm, cy - 1, 0, w)
                b2 == hline(b1, cy + 1, 0, w)
            IN  b2
      [] unicode_cp = \h2551 ->  \* double vertical
            LET b1 == vline(bm, cx - 1, 0, h)
                b2 == vline(b1, cx + 1, 0, h)
            IN  b2
      [] unicode_cp = \h2554 ->  \* double down-right
            LET b1 == hline(bm, cy - 1, cx + 1, w)
                b2 == hline(b1, cy + 1, cx - 1, w)
                b3 == vline(b2, cx - 1, cy + 1, h)
                b4 == vline(b3, cx + 1, cy - 1, h)
            IN  b4
      [] unicode_cp = \h2557 ->  \* double down-left
            LET b1 == hline(bm, cy - 1, 0, cx)
                b2 == hline(b1, cy + 1, 0, cx + 2)
                b3 == vline(b2, cx + 1, cy + 1, h)
                b4 == vline(b3, cx - 1, cy - 1, h)
            IN  b4
      [] unicode_cp = \h255A ->  \* double up-right
            LET b1 == hline(bm, cy - 1, cx - 1, w)
                b2 == hline(b1, cy + 1, cx + 1, w)
                b3 == vline(b2, cx - 1, 0, cy - 1 + 1)
                b4 == vline(b3, cx + 1, 0, cy + 1)
            IN  b4
      [] unicode_cp = \h255D ->  \* double up-left
            LET b1 == hline(bm, cy - 1, 0, cx + 2)
                b2 == hline(b1, cy + 1, 0, cx)
                b3 == vline(b2, cx + 1, 0, cy - 1 + 1)
                b4 == vline(b3, cx - 1, 0, cy + 1 + 1)
            IN  b4
      [] unicode_cp = \h2560 ->  \* double vertical-right
            LET b1 == vline(bm, cx - 1, 0, h)
                b2 == vline(b1, cx + 1, 0, cy - 1 + 1)
                b3 == vline(b2, cx + 1, cy + 1, h)
                b4 == hline(b3, cy - 1, cx + 1, w)
                b5 == hline(b4, cy + 1, cx + 1, w)
            IN  b5
      [] unicode_cp = \h2563 ->  \* double vertical-left
            LET b1 == vline(bm, cx + 1, 0, h)
                b2 == vline(b1, cx - 1, 0, cy - 1 + 1)
                b3 == vline(b2, cx - 1, cy + 1, h)
                b4 == hline(b3, cy - 1, 0, cx)
                b5 == hline(b4, cy + 1, 0, cx)
            IN  b5
      [] unicode_cp = \h2566 ->  \* double horizontal-down
            LET b1 == hline(bm, cy - 1, 0, w)
                b2 == hline(b1, cy + 1, 0, cx)
                b3 == hline(b2, cy + 1, cx + 2, w)
                b4 == vline(b3, cx - 1, cy - 1, h)
                b5 == vline(b4, cx + 1, cy - 1, h)
            IN  b5
      [] unicode_cp = \h2569 ->  \* double horizontal-up
            LET b1 == hline(bm, cy + 1, 0, w)
                b2 == hline(b1, cy - 1, 0, cx)
                b3 == hline(b2, cy - 1, cx + 2, w)
                b4 == vline(b3, cx - 1, 0, cy + 1 + 1)
                b5 == vline(b4, cx + 1, 0, cy + 1 + 1)
            IN  b5
      [] unicode_cp = \h256C ->  \* double cross
            LET b1 == hline(bm, cy - 1, 0, cx)
                b2 == hline(b1, cy - 1, cx + 2, w)
                b3 == hline(b2, cy + 1, 0, cx)
                b4 == hline(b3, cy + 1, cx + 2, w)
                b5 == vline(b4, cx - 1, 0, cy)
                b6 == vline(b5, cx - 1, cy + 2, h)
                b7 == vline(b6, cx + 1, 0, cy)
                b8 == vline(b7, cx + 1, cy + 2, h)
            IN  b8

\* render_glyph, lines 408-479
box_mixed_cps ==
   {\h2552, \h2553, \h2555, \h2556, \h2558, \h2559, \h255B, \h255C,
    \h255E, \h255F, \h2561, \h2562, \h2564, \h2565, \h2567, \h2568,
    \h256A, \h256B}

box_mixed(unicode_cp, bm, w, h, cx, cy) ==
   CASE unicode_cp = \h2552 ->  \* down-single right-double
            LET b1 == vline(bm, cx, cy - 1, h)
                b2 == hline(b1, cy - 1, cx, w)
                b3 == hline(b2, cy + 1, cx, w)
            IN  b3
      [] unicode_cp = \h2553 ->  \* down-double right-single
            LET b1 == hline(bm, cy, cx - 1, w)
                b2 == vline(b1, cx - 1, cy, h)
                b3 == vline(b2, cx + 1, cy, h)
            IN  b3
      [] unicode_cp = \h2555 ->  \* down-single left-double
            LET b1 == vline(bm, cx, cy - 1, h)
                b2 == hline(b1, cy - 1, 0, cx + 1)
                b3 == hline(b2, cy + 1, 0, cx + 1)
            IN  b3
      [] unicode_cp = \h2556 ->  \* down-double left-single
            LET b1 == hline(bm, cy, 0, cx + 2)
                b2 == vline(b1, cx - 1, cy, h)
                b3 == vline(b2, cx + 1, cy, h)
            IN  b3
      [] unicode_cp = \h2558 ->  \* up-single right-double
            LET b1 == vline(bm, cx, 0, cy + 2)
                b2 == hline(b1, cy - 1, cx, w)
                b3 == hline(b2, cy + 1, cx, w)
            IN  b3
      [] unicode_cp = \h2559 ->  \* up-double right-single
            LET b1 == hline(bm, cy, cx - 1, w)
                b2 == vline(b1, cx - 1, 0, cy + 1)
                b3 == vline(b2, cx + 1, 0, cy + 1)
            IN  b3
      [] unicode_cp = \h255B ->  \* up-single left-double
            LET b1 == vline(bm, cx, 0, cy + 2)
                b2 == hline(b1, cy - 1, 0, cx + 1)
                b3 == hline(b2, cy + 1, 0, cx + 1)
            IN  b3
      [] unicode_cp = \h255C ->  \* up-double left-single
            LET b1 == hline(bm, cy, 0, cx + 2)
                b2 == vline(b1, cx - 1, 0, cy + 1)
                b3 == vline(b2, cx + 1, 0, cy + 1)
            IN  b3
      [] unicode_cp = \h255E ->  \* vertical-single right-double
            LET b1 == vline(bm, cx, 0, h)
                b2 == hline(b1, cy - 1, cx, w)
                b3 == hline(b2, cy + 1, cx, w)
            IN  b3
      [] unicode_cp = \h255F ->  \* vertical-double right-single
            LET b1 == vline(bm, cx - 1, 0, h)
                b2 == vline(b1, cx + 1, 0, h)
                b3 == hline(b2, cy, cx + 1, w)
            IN  b3
      [] unicode_cp = \h2561 ->  \* vertical-single left-double
            LET b1 == vline(bm, cx, 0, h)
                b2 == hline(b1, cy - 1, 0, cx + 1)
                b3 == hline(b2, cy + 1, 0, cx + 1)
            IN  b3
      [] unicode_cp = \h2562 ->  \* vertical-double left-single
            LET b1 == vline(bm, cx - 1, 0, h)
                b2 == vline(b1, cx + 1, 0, h)
                b3 == hline(b2, cy, 0, cx)
            IN  b3
      [] unicode_cp = \h2564 ->  \* down-single horizontal-double
            LET b1 == hline(bm, cy - 1, 0, w)
                b2 == hline(b1, cy + 1, 0, w)
                b3 == vline(b2, cx, cy + 1, h)
            IN  b3
      [] unicode_cp = \h2565 ->  \* down-double horizontal-single
            LET b1 == hline(bm, cy, 0, w)
                b2 == vline(b1, cx - 1, cy, h)
                b3 == vline(b2, cx + 1, cy, h)
            IN  b3
      [] unicode_cp = \h2567 ->  \* up-single horizontal-double
            LET b1 == hline(bm, cy - 1, 0, w)
                b2 == hline(b1, cy + 1, 0, w)
                b3 == vline(b2, cx, 0, cy)
            IN  b3
      [] unicode_cp = \h2568 ->  \* up-double horizontal-single
            LET b1 == hline(bm, cy, 0, w)
                b2 == vline(b1, cx - 1, 0, cy + 1)
                b3 == vline(b2, cx + 1, 0, cy + 1)
            IN  b3
      [] unicode_cp = \h256A ->  \* vertical-single horizontal-double
            LET b1 == vline(bm, cx, 0, h)
                b2 == hline(b1, cy - 1, 0, w)
                b3 == hline(b2, cy + 1, 0, w)
            IN  b3
      [] unicode_cp = \h256B ->  \* vertical-double horizontal-single
            LET b1 == vline(bm, cx - 1, 0, h)
                b2 == vline(b1, cx + 1, 0, h)
                b3 == hline(b2, cy, 0, w)
            IN  b3

\* render_glyph, lines 482-512
box_half_heavy_cps ==
   {\h2574, \h2575, \h2576, \h2577, \h2501, \h2503, \h254B, \h2504}

box_half_heavy(unicode_cp, bm, w, h, cx, cy) ==
   CASE unicode_cp = \h2574 ->  \* light left
            LET b1 == hline(bm, cy, 0, cx + 1)
            IN  b1
      [] unicode_cp = \h2575 ->  \* light up
            LET b1 == vline(bm, cx, 0, cy + 1)
            IN  b1
      [] unicode_cp = \h2576 ->  \* light right
            LET b1 == hline(bm, cy, cx, w)
            IN  b1
      [] unicode_cp = \h2577 ->  \* light down
            LET b1 == vline(bm, cx, cy, h)
            IN  b1
      [] unicode_cp = \h2501 ->  \* heavy horizontal
            LET b1 == hline(bm, cy - 1, 0, w)
                b2 == hline(b1, cy, 0, w)
                b3 == hline(b2, cy + 1, 0, w)
            IN  b3
      [] unicode_cp = \h2503 ->  \* heavy vertical
            LET b1 == vline(bm, cx - 1, 0, h)
                b2 == vline(b1, cx, 0, h)
                b3 == vline(b2, cx + 1, 0, h)
            IN  b3
      [] unicode_cp = \h254B ->  \* heavy cross
            LET b1 == hline(bm, cy - 1, 0, w)
                b2 == hline(b1, cy, 0, w)
                b3 == hline(b2, cy + 1, 0, w)
                b4 == vline(b3, cx - 1, 0, h)
                b5 == vline(b4, cx, 0, h)
                b6 == vline(b5, cx + 1, 0, h)
            IN  b6
      [] unicode_cp = \h2504 ->  \* triple dash horizontal
            LET seg == Max(1, w \div 5)
                body(b, i) == hline(b, cy, i, Min(i + seg, w))
            IN  for_range(body, bm, 0, w, seg * 2)

\* render_glyph, lines 515-546
block_elements_cps ==
   {\h2580, \h2581, \h2582, \h2583, \h2584, \h2585, \h2586, \h2587,
    \h2588, \h2589, \h258A, \h258B, \h258C, \h258D, \h258E, \h258F}

block_elements(unicode_cp, bm, w, h, cx, cy) ==
   CASE unicode_cp = \h2580 ->  \* upper half
            LET b1 == fill_rect(bm, 0, 0, w, h \div 2)
            IN  b1
      [] unicode_cp = \h2581 ->  \* lower 1/8
            LET b1 == fill_rect(bm, 0, h - Max(1, h \div 8), w, h)
            IN  b1
      [] unicode_cp = \h2582 ->  \* lower 1/4
            LET b1 == fill_rect(bm, 0, h - Max(1, h \div 4), w, h)
            IN  b1
      [] unicode_cp = \h2583 ->  \* lower 3/8
            LET b1 == fill_rect(bm, 0, h - Max(1, (h * 3) \div 8), w, h)
            IN  b1
      [] unicode_cp = \h2584 ->  \* lower half
            LET b1 == fill_rect(bm, 0, h \div 2, w, h)
            IN  b1
      [] unicode_cp = \h2585 ->  \* lower 5/8
            LET b1 == fill_rect(bm, 0, h - Max(1, (h * 5) \div 8), w, h)
            IN  b1
      [] unicode_cp = \h2586 ->  \* lower 3/4
            LET b1 == fill_rect(bm, 0, h - Max(1, (h * 3) \div 4), w, h)
            IN  b1
      [] unicode_cp = \h2587 ->  \* lower 7/8
            LET b1 == fill_rect(bm, 0, h - Max(1, (h * 7) \div 8), w, h)
            IN  b1
      [] unicode_cp = \h2588 ->  \* full block
            LET b1 == fill_rect(bm, 0, 0, w, h)
            IN  b1
      [] unicode_cp = \h2589 ->  \* left 7/8
            LET b1 == fill_rect(bm, 0, 0, Max(1, (w * 7) \div 8), h)
            IN  b1
      [] unicode_cp = \h258A ->  \* left 3/4
            LET b1 == fill_rect(bm, 0, 0, Max(1, (w * 3) \div 4), h)
            IN  b1
      [] unicode_cp = \h258B ->  \* left 5/8
            LET b1 == fill_rect(bm, 0, 0, Max(1, (w * 5) \div 8), h)
            IN  b1
      [] unicode_cp = \h258C ->  \* left half
            LET b1 == fill_rect(bm, 0, 0, w \div 2, h)
            IN  b1
      [] unicode_cp = \h258D ->  \* left 3/8
            LET b1 == fill_rect(bm, 0, 0, Max(1, (w * 3) \div 8), h)
            IN  b1
      [] unicode_cp = \h258E ->  \* left 1/4
            LET b1 == fill_rect(bm, 0, 0, Max(1, w \div 4), h)
            IN  b1
      [] unicode_cp = \h258F ->  \* left 1/8
            LET b1 == fill_rect(bm, 0, 0, Max(1, w \div 8), h)
            IN  b1

\* render_glyph, lines 549-560
shading_cps ==
   {\h2590, \h2591, \h2592, \h2593, \h2594, \h2595}

\* Variant: the eighths without the minimum of one pixel.
shading_no_minimum(unicode_cp, bm, w, h, cx, cy) ==
   CASE unicode_cp = \h2590 -> fill_rect(bm, w \div 2, 0, w, h)
      [] unicode_cp = \h2591 -> dither(bm, 25)
      [] unicode_cp = \h2592 -> dither(bm, 50)
      [] unicode_cp = \h2593 -> dither(bm, 75)
      [] unicode_cp = \h2594 -> fill_rect(bm, 0, 0, w, h \div 8)
      [] unicode_cp = \h2595 -> fill_rect(bm, w - (w \div 8), 0, w, h)

shading(unicode_cp, bm, w, h, cx, cy) ==
   CASE unicode_cp = \h2590 ->  \* right half
            LET b1 == fill_rect(bm, w \div 2, 0, w, h)
            IN  b1
      [] unicode_cp = \h2591 ->  \* light shade
            LET b1 == dither(bm, 25)
            IN  b1
      [] unicode_cp = \h2592 ->  \* medium shade
            LET b1 == dither(bm, 50)
            IN  b1
      [] unicode_cp = \h2593 ->  \* dark shade
            LET b1 == dither(bm, 75)
            IN  b1
      [] unicode_cp = \h2594 ->  \* upper 1/8
            LET b1 == fill_rect(bm, 0, 0, w, Max(1, h \div 8))
            IN  b1
      [] unicode_cp = \h2595 ->  \* right 1/8
            LET b1 == fill_rect(bm, w - Max(1, w \div 8), 0, w, h)
            IN  b1

\* render_glyph, lines 563-598
geometric_cps ==
   {\h25A0, \h25A1, \h25AA, \h25AB, \h25B2, \h25B6, \h25BC, \h25C0,
    \h25CB, \h25CF}

geometric(unicode_cp, bm, w, h, cx, cy) ==
   CASE unicode_cp = \h25A0 ->  \* black square
            LET m == Max(1, Min(w, h) \div 6)
                b1 == fill_rect(bm, m, m, w - m, h - m)
            IN  b1
      [] unicode_cp = \h25A1 ->  \* white square
            LET m == Max(1, Min(w, h) \div 6)
                b1 == fill_rect(bm, m, m, w - m, m + 1)
                b2 == fill_rect(b1, m, h - m - 1, w - m, h - m)
                b3 == fill_rect(b2, m, m, m + 1, h - m)
                b4 == fill_rect(b3, w - m - 1, m, w - m, h - m)
            IN  b4
      [] unicode_cp = \h25AA ->  \* black small square
            LET m == Max(1, Min(w, h) \div 4)
                b1 == fill_rect(bm, m, m, w - m, h - m)
            IN  b1
      [] unicode_cp = \h25AB ->  \* white small square
            LET m == Max(1, Min(w, h) \div 4)
                b1 == fill_rect(bm, m, m, w - m, m + 1)
                b2 == fill_rect(b1, m, h - m - 1, w - m, h - m)
                b3 == fill_rect(b2, m, m, m + 1, h - m)
                b4 == fill_rect(b3, w - m - 1, m, w - m, h - m)
            IN  b4
      [] unicode_cp = \h25B2 ->  \* up triangle
            LET b1 == fill_triangle(bm, <<<<cx, 1>>, <<1, h - 2>>, <<w - 2, h - 2>>>>)
            IN  b1
      [] unicode_cp = \h25B6 ->  \* right triangle
            LET b1 == fill_triangle(bm, <<<<1, 1>>, <<1, h - 2>>, <<w - 2, cy>>>>)
            IN  b1
      [] unicode_cp = \h25BC ->  \* down triangle
            LET b1 == fill_triangle(bm, <<<<cx, h - 2>>, <<1, 1>>, <<w - 2, 1>>>>)
            IN  b1
      [] unicode_cp = \h25C0 ->  \* left triangle
            LET b1 == fill_triangle(bm, <<<<w - 2, 1>>, <<w - 2, h - 2>>, <<1, cy>>>>)
            IN  b1
      [] unicode_cp = \h25CB ->  \* white circle
            LET r == Min(cx, cy) - 1
                b1 == outline_circle(bm, cx, cy, r)
            IN  b1
      [] unicode_cp = \h25CF ->  \* black circle
            LET r == Min(cx, cy) - 1
                b1 == fill_circle(bm, cx, cy, r)
            IN  b1

\* render_glyph, lines 601-646
suits_faces_notes_cps ==
   {\h2660, \h2663, \h2665, \h2666, \h263A, \h263B, \h266A, \h266B}

suits_faces_notes(unicode_cp, bm, w, h, cx, cy) ==
   CASE unicode_cp = \h2660 ->  \* spade
            LET b1 == fill_triangle(bm, <<<<cx, 1>>, <<1, cy + 1>>, <<w - 2, cy + 1>>>>)
                b2 == fill_circle(b1, cx - w \div 4, cy + 1, w \div 4)
                b3 == fill_circle(b2, cx + w \div 4, cy + 1, w \div 4)
                b4 == vline(b3, cx, cy + 1, h - 1)
            IN  b4
      [] unicode_cp = \h2663 ->  \* club
            LET r == Max(1, w \div 4)
                b1 == fill_circle(bm, cx, 2, r)
                b2 == fill_circle(b1, cx - r - 1, cy, r)
                b3 == fill_circle(b2, cx + r + 1, cy, r)
                b4 == vline(b3, cx, cy, h - 1)
            IN  b4
      [] unicode_cp = \h2665 ->  \* heart
            LET r == Max(1, w \div 4)
                b1 == fill_circle(bm, cx - r, 2 + r, r)
                b2 == fill_circle(b1, cx + r, 2 + r, r)
                b3 == fill_triangle(b2, <<<<cx, h - 2>>, <<0, 2 + r>>, <<w - 1, 2 + r>>>>)
            IN  b3
      [] unicode_cp = \h2666 ->  \* diamond
            LET b1 == fill_triangle(bm, <<<<cx, 1>>, <<1, cy>>, <<cx, h - 2>>>>)
                b2 == fill_triangle(b1, <<<<cx, 1>>, <<w - 2, cy>>, <<cx, h - 2>>>>)
            IN  b2
      [] unicode_cp = \h263A ->  \* white smiley
            LET r == Min(cx, cy) - 1
                b1 == outline_circle(bm, cx, cy, r)
                b2 == set(b1, cx - 1, cy - 1)
                b3 == set(b2, cx + 1, cy - 1)
                b4 == set(b3, cx, cy + 1)
            IN  IF w >= 6 THEN b4 ELSE b1
      [] unicode_cp = \h263B ->  \* black smiley
            LET r == Min(cx, cy) - 1
                b1 == fill_circle(bm, cx, cy, r)
            IN  b1
      [] unicode_cp = \h266A ->  \* eighth note
            LET b1 == fill_circle(bm, cx - 1, h - 3, Max(1, w \div 4))
                b2 == vline(b1, cx + Max(1, w \div 4) - 1, 2, h - 3)
                b3 == hline(b2, 2, cx + Max(1, w \div 4) - 1, w - 1)
            IN  b3
      [] unicode_cp = \h266B ->  \* beamed eighth notes
            LET x0 == Max(1, w \div 4)
                x1 == w - Max(1, w \div 4) - 1
                b1 == fill_circle(bm, x0, h - 3, Max(1, w \div 5))
                b2 == fill_circle(b1, x1, h - 3, Max(1, w \div 5))
                b3 == vline(b2, x0 + Max(1, w \div 5), 2, h - 3)
                b4 == vline(b3, x1 + Max(1, w \div 5), 2, h - 3)
                b5 == hline(b4, 2, x0 + Max(1, w \div 5), x1 + Max(1, w \div 5) + 1)
                b6 == hline(b5, 3, x0 + Max(1, w \div 5), x1 + Max(1, w \div 5) + 1)
            IN  b6

\* render_glyph, lines 649-686
marks_arrows_cps ==
   {\h2713, \h2717, \h2190, \h2191, \h2192, \h2193, \h2194}

marks_arrows(unicode_cp, bm, w, h, cx, cy) ==
   CASE unicode_cp = \h2713 ->  \* check mark
            LET body1(b, i) == set(b, cx \div 2 + i, cy + i)
                body2(b, i) == set(b, cx \div 2 + Min(w, h) \div 2 + i,
                                      cy + Min(w, h) \div 2 - 1 - i)
                b1 == for_range(body1, bm, 0, Min(w, h) \div 2, 1)
                b2 == for_range(body2, b1, 0, (Min(w, h) * 2) \div 3, 1)
            IN  b2
      [] unicode_cp = \h2717 ->  \* ballot x
            LET body(b, i) ==
                   LET c1 == set(b, 1 + (i * (w - 2)) \div (Min(w, h) - 2), 1 + i)
                       c2 == set(c1, w - 2 - (i * (w - 2)) \div (Min(w, h) - 2), 1 + i)
                   IN  c2
            IN  for_range(body, bm, 0, Min(w, h) - 2, 1)
      [] unicode_cp = \h2190 ->  \* left arrow
            LET b1 == hline(bm, cy, 0, w)
                body(b, i) ==
                   LET c1 == set(b, i, cy - i - 1)
                       c2 == set(c1, i, cy + i + 1)
                   IN  c2
            IN  for_range(body, b1, 0, Min(3, h \div 3), 1)
      [] unicode_cp = \h2191 ->  \* up arrow
            LET b1 == vline(bm, cx, 0, h)
                body(b, i) ==
                   LET c1 == set(b, cx - i - 1, i)
                       c2 == set(c1, cx + i + 1, i)
                   IN  c2
            IN  for_range(body, b1, 0, Min(3, w \div 3), 1)
      [] unicode_cp = \h2192 ->  \* right arrow
            LET b1 == hline(bm, cy, 0, w)
                body(b, i) ==
                   LET c1 == set(b, w - 1 - i, cy - i - 1)
                       c2 == set(c1, w - 1 - i, cy + i + 1)
                   IN  c2
            IN  for_range(body, b1, 0, Min(3, h \div 3), 1)
      [] unicode_cp = \h2193 ->  \* down arrow
            LET b1 == vline(bm, cx, 0, h)
                body(b, i) ==
                   LET c1 == set(b, cx - i - 1, h - 1 - i)
                       c2 == set(c1, cx + i + 1, h - 1 - i)
                   IN  c2
            IN  for_range(body, b1, 0, Min(3, w \div 3), 1)
      [] unicode_cp = \h2194 ->  \* left-right arrow
            LET b1 == hline(bm, cy, 0, w)
                body(b, i) ==
                   LET c1 == set(b, i, cy - i - 1)
                       c2 == set(c1, i, cy + i + 1)
                       c3 == set(c2, w - 1 - i, cy - i - 1)
                       c4 == set(c3, w - 1 - i, cy + i + 1)
                   IN  c4
            IN  for_range(body, b1, 0, Min(3, h \div 3), 1)

\* render_glyph, lines 689-753
spinner_cps ==
   {\h23F5, \h2217, \h2722, \h2733, \h273B, \h273D, \h2315}

spinner(unicode_cp, bm, w, h, cx, cy) ==
   CASE unicode_cp = \h23F5 ->  \* right-pointing triangle
            LET m == Max(1, Min(w, h) \div 6)
                b1 == fill_triangle(bm, <<<<m, m>>, <<m, h - m - 1>>, <<w - m - 1, cy>>>>)
            IN  b1
      [] unicode_cp = \h2217 ->  \* asterisk operator
            LET r == Min(cx, cy) - 1
                b1 == vline(bm, cx, cy - r, cy + r + 1)
                body(b, i) ==
                   LET dx == ((i * r) \div (IF r # 0 THEN r ELSE 1)) \div 2
                       c1 == set(b, cx + i, cy - dx)
                       c2 == set(c1, cx + i, cy + dx)
                   IN  c2
            IN  for_range(body, b1, -r, r + 1, 1)
      [] unicode_cp = \h2722 ->  \* four teardrop-spoked asterisk
            LET r == Min(cx, cy) - 1
                b1 == vline(bm, cx, cy - r, cy + r + 1)
                b2 == hline(b1, cy, cx - r, cx + r + 1)
                b3 == set(b2, cx - 1, cy - 1)
                b4 == set(b3, cx + 1, cy - 1)
                b5 == set(b4, cx - 1, cy + 1)
                b6 == set(b5, cx + 1, cy + 1)
            IN  b6
      [] unicode_cp = \h2733 ->  \* eight spoked asterisk
            LET r == Min(cx, cy) - 1
                b1 == vline(bm, cx, cy - r, cy + r + 1)
                b2 == hline(b1, cy, cx - r, cx + r + 1)
                body(b, i) ==
                   LET c1 == set(b, cx + i, cy + i)
                       c2 == set(c1, cx + i, cy - i)
                   IN  c2
                b3 == for_range(body, b2, -r, r + 1, 1)
            IN  b3
      [] unicode_cp = \h273B ->  \* teardrop-spoked asterisk
            LET r == Min(cx, cy) - 1
                b1 == vline(bm, cx, cy - r, cy + r + 1)
                b2 == hline(b1, cy, cx - r, cx + r + 1)
                body(b, i) ==
                   LET c1 == set(b, cx + i, cy + i)
                       c2 == set(c1, cx + i, cy - i)
                   IN  c2
                b3 == for_range(body, b2, -r, r + 1, 1)
                b4 == set(b3, cx - 1, cy)
                b5 == set(b4, cx + 1, cy)
                b6 == set(b5, cx, cy - 1)
                b7 == set(b6, cx, cy + 1)
            IN  IF w >= 6 THEN b7 ELSE b3
      [] unicode_cp = \h273D ->  \* heavy teardrop-spoked pinwheel
            LET r == Min(cx, cy) - 1
                b1 == vline(bm, cx, cy - r, cy + r + 1)
                b2 == hline(b1, cy, cx - r, cx + r + 1)
                body(b, i) ==
                   LET c1 == set(b, cx + i, cy + i)
                       c2 == set(c1, cx + i, cy - i)
                   IN  c2
                b3 == for_range(body, b2, -r, r + 1, 1)
                ir == Max(1, r \div 2)
                b4 == fill_circle(b3, cx, cy, ir)
            IN  b4
      [] unicode_cp = \h2315 ->  \* telephone recorder (used as search icon)
            LET lens_r == Max(2, Min(w, h) \div 3)
                lens_cx == cx - lens_r \div 3
                lens_cy == cy - lens_r \div 3
                b1 == outline_circle(bm, lens_cx, lens_cy, lens_r)
                body(b, i) ==
                   LET c1 == set(b, lens_cx + lens_r + i, lens_cy + lens_r + i)
                       c2 == set(c1, lens_cx + lens_r + i + 1, lens_cy + lens_r + i)
                   IN  IF w >= 8 THEN c2 ELSE c1
            IN  for_range(body, b1, 0, lens_r, 1)

\* Variant: the arm of the heavy right-pointing angle removed.
pointer_cps_empty == {}

\* render_glyph, lines 778-788
pointer_cps ==
   {\h276F}

pointer(unicode_cp, bm, w, h, cx, cy) ==
   CASE unicode_cp = \h276F ->  \* heavy right-pointing angle
            LET body(b, i) ==
                   LET x == IF i <= cy
                            THEN cx - cx + (i * cx) \div Max(cy, 1)
                            ELSE cx - ((i - cy) * cx) \div Max(h - 1 - cy, 1)
                       c1 == set(b, x, i)
                       c2 == set(c1, x + 1, i)
                   IN  IF w >= 6 THEN c2 ELSE c1
            IN  for_range(body, bm, 0, h, 1)

\* render_glyph, lines 791-816
quadrants_cps ==
   {\h2596, \h2597, \h2598, \h2599, \h259A, \h259B, \h259C, \h259D,
    \h259E, \h259F}

quadrants(unicode_cp, bm, w, h, cx, cy) ==
   CASE unicode_cp = \h2596 ->  \* quadrant lower left
            LET b1 == fill_rect(bm, 0, h \div 2, w \div 2, h)
            IN  b1
      [] unicode_cp = \h2597 ->  \* quadrant lower right
            LET b1 == fill_rect(bm, w \div 2, h \div 2, w, h)
            IN  b1
      [] unicode_cp = \h2598 ->  \* quadrant upper left
            LET b1 == fill_rect(bm, 0, 0, w \div 2, h \div 2)
            IN  b1
      [] unicode_cp = \h2599 ->  \* quadrant upper left + lower left + lower right
            LET b1 == fill_rect(bm, 0, 0, w \div 2, h \div 2)
                b2 == fill_rect(b1, 0, h \div 2, w, h)
            IN  b2
      [] unicode_cp = \h259A ->  \* quadrant upper left + lower right
            LET b1 == fill_rect(bm, 0, 0, w \div 2, h \div 2)
                b2 == fill_rect(b1, w \div 2, h \div 2, w, h)
            IN  b2
      [] unicode_cp = \h259B ->  \* quadrant upper left + upper right + lower left
            LET b1 == fill_rect(bm, 0, 0, w, h \div 2)
                b2 == fill_rect(b1, 0, h \div 2, w \div 2, h)
            IN  b2
      [] unicode_cp = \h259C ->  \* quadrant upper left + upper right + lower right
            LET b1 == fill_rect(bm, 0, 0, w, h \div 2)
                b2 == fill_rect(b1, w \div 2, h \div 2, w, h)
            IN  b2
      [] unicode_cp = \h259D ->  \* quadrant upper right
            LET b1 == fill_rect(bm, w \div 2, 0, w, h \div 2)
            IN  b1
      [] unicode_cp = \h259E ->  \* quadrant upper right + lower left
            LET b1 == fill_rect(bm, w \div 2, 0, w, h \div 2)
                b2 == fill_rect(b1, 0, h \div 2, w \div 2, h)
            IN  b2
      [] unicode_cp = \h259F ->  \* quadrant upper right + lower left + lower right
            LET b1 == fill_rect(bm, w \div 2, 0, w, h \div 2)
                b2 == fill_rect(b1, 0, h \div 2, w, h)
            IN  b2

\* render_glyph, lines 819-924
figures_cps ==
   {\h25C6, \h25C7, \h2714, \h2718, \h25FB, \h25FC, \h25C9, \h25EF,
    \h2610, \h2612, \h2605, \h2630, \h25B3, \h26A0, \h25CE, \h25CC,
    \h2139, \h00B7}

figures(unicode_cp, bm, w, h, cx, cy) ==
   CASE unicode_cp = \h25C6 ->  \* black diamond
            LET b1 == fill_triangle(bm, <<<<cx, 1>>, <<1, cy>>, <<cx, h - 2>>>>)
                b2 == fill_triangle(b1, <<<<cx, 1>>, <<w - 2, cy>>, <<cx, h - 2>>>>)
            IN  b2
      [] unicode_cp = \h25C7 ->  \* white diamond
            LET body(b, i) ==
                   LET c1 == set(b, cx - i, cy - i)
                       c2 == set(c1, cx + i, cy - i)
                       c3 == set(c2, cx - i, cy + i)
                       c4 == set(c3, cx + i, cy + i)
                   IN  c4
            IN  for_range(body, bm, 0, cy, 1)
      [] unicode_cp = \h2714 ->  \* heavy check mark
            LET outer(b, d) ==
                   LET body1(c, i) == set(c, w \div 4 + i, cy + i + d)
                       body2(c, i) == set(c, w \div 4 + h \div 3 + i,
                                             cy + h \div 3 - 1 - i + d)
                       c1 == for_range(body1, b, 0, h \div 3, 1)
                       c2 == for_range(body2, c1, 0, (h * 2) \div 3, 1)
                   IN  c2
            IN  for_range(outer, bm, -1, 2, 1)
      [] unicode_cp = \h2718 ->  \* heavy ballot X
            LET outer(b, d) ==
                   LET body(c, i) ==
                          LET e1 == set(c, 1 + (i * (w - 3)) \div Max(h - 3, 1) + d, 1 + i)
                              e2 == set(e1, w - 2 - (i * (w - 3)) \div Max(h - 3, 1) + d, 1 + i)
                          IN  e2
                   IN  for_range(body, b, 0, h - 2, 1)
            IN  for_range(outer, bm, -1, 2, 1)
      [] unicode_cp = \h25FB ->  \* white medium square
            LET m == Max(1, Min(w, h) \div 5)
                b1 == fill_rect(bm, m, m, w - m, m + 1)
                b2 == fill_rect(b1, m, h - m - 1, w - m, h - m)
                b3 == fill_rect(b2, m, m, m + 1, h - m)
                b4 == fill_rect(b3, w - m - 1, m, w - m, h - m)
            IN  b4
      [] unicode_cp = \h25FC ->  \* black medium square
            LET m == Max(1, Min(w, h) \div 5)
                b1 == fill_rect(bm, m, m, w - m, h - m)
            IN  b1
      [] unicode_cp = \h25C9 ->  \* fisheye (filled circle with dot)
            LET r == Min(cx, cy) - 1
                b1 == outline_circle(bm, cx, cy, r)
                b2 == fill_circle(b1, cx, cy, Max(1, r \div 2))
            IN  b2
      [] unicode_cp = \h25EF ->  \* large circle
            LET r == Min(cx, cy) - 1
                b1 == outline_circle(bm, cx, cy, r)
            IN  b1
      [] unicode_cp = \h2610 ->  \* ballot box
            LET m == Max(1, Min(w, h) \div 6)
                b1 == fill_rect(bm, m, m, w - m, m + 1)
                b2 == fill_rect(b1, m, h - m - 1, w - m, h - m)
                b3 == fill_rect(b2, m, m, m + 1, h - m)
                b4 == fill_rect(b3, w - m - 1, m, w - m, h - m)
            IN  b4
      [] unicode_cp = \h2612 ->  \* ballot box with X
            LET m == Max(1, Min(w, h) \div 6)
                b1 == fill_rect(bm, m, m, w - m, m + 1)
                b2 == fill_rect(b1, m, h - m - 1, w - m, h - m)
                b3 == fill_rect(b2, m, m, m + 1, h - m)
                b4 == fill_rect(b3, w - m - 1, m, w - m, h - m)
                body(b, i) ==
                   LET x == m + 1 + (i * (w - 2 * m - 3)) \div Max(h - 2 * m - 3, 1)
                       c1 == set(b, x, m + 1 + i)
                       c2 == set(c1, w - m - 2 - (i * (w - 2 * m - 3)) \div Max(h - 2 * m - 3, 1),
                                     m + 1 + i)
                   IN  c2
            IN  for_range(body, b4, 0, h - 2 * m - 2, 1)
      [] unicode_cp = \h2605 ->  \* black star
            LET b1 == fill_triangle(bm, <<<<cx, 0>>, <<cx - cx \div 2, cy>>, <<cx + cx \div 2, cy>>>>)
                b2 == fill_triangle(b1, <<<<0, h \div 3>>, <<w - 1, h \div 3>>, <<cx, h - 2>>>>)
                b3 == fill_rect(b2, cx - cx \div 2, h \div 3, cx + cx \div 2 + 1, cy + 1)
            IN  b3
      [] unicode_cp = \h2630 ->  \* trigram (hamburger menu)
            LET t == Max(1, h \div 8)
                body(b, row) ==
                   LET y == h \div 6 + (row * h) \div 3
                   IN  fill_rect(b, 1, y, w - 1, y + t)
            IN  for_range(body, bm, 0, 3, 1)
      [] unicode_cp = \h25B3 ->  \* white up-pointing triangle
            LET body(b, i) ==
                   LET hw == (i * (w - 2)) \div (2 * Max(h - 3, 1))
                       c1 == set(b, cx - hw, h - 2 - i)
                       c2 == set(c1, cx + hw, h - 2 - i)
                   IN  c2
                b1 == for_range(body, bm, 0, h - 2, 1)
                b2 == hline(b1, h - 2, cx - (w - 2) \div 2, cx + (w - 2) \div 2 + 1)
            IN  b2
      [] unicode_cp = \h26A0 ->  \* warning sign
            LET body(b, i) ==
                   LET hw == (i * (w - 2)) \div (2 * Max(h - 3, 1))
                       c1 == set(b, cx - hw, h - 2 - i)
                       c2 == set(c1, cx + hw, h - 2 - i)
                   IN  c2
                b1 == for_range(body, bm, 0, h - 2, 1)
                b2 == hline(b1, h - 2, cx - (w - 2) \div 2, cx + (w - 2) \div 2 + 1)
                b3 == vline(b2, cx, h \div 4 + 1, (h * 2) \div 3)
                b4 == set(b3, cx, (h * 3) \div 4)
            IN  b4
      [] unicode_cp = \h25CE ->  \* bullseye (double circle)
            LET r == Min(cx, cy) - 1
                b1 == outline_circle(bm, cx, cy, r)
                b2 == outline_circle(b1, cx, cy, r - 2)
            IN  IF r >= 3 THEN b2 ELSE b1
      [] unicode_cp = \h25CC ->  \* dotted circle
            LET r == Min(cx, cy) - 1
                body(b, angle_deg) ==
                   LET x == int_cos(cx, r, angle_deg)
                       y == int_sin(cy, r, angle_deg)
                   IN  IF 0 <= x /\ x < w /\ 0 <= y /\ y < h THEN set(b, x, y) ELSE b
            IN  for_range(body, bm, 0, 360, 30)
      [] unicode_cp = \h2139 ->  \* information source
            LET b1 == set(bm, cx, 2)
                b2 == vline(b1, cx, 4, h - 2)
                b3 == hline(b2, h - 2, cx - 1, cx + 2)
                b4 == hline(b3, 4, cx - 1, cx + 2)
            IN  b4
      [] unicode_cp = \h00B7 ->  \* middle dot
            LET dot_size == Max(1, Min(w, h) \div 6)
                rows(b, dy) ==
                   LET cols(c, dx) == set(c, cx - dot_size \div 2 + dx, cy - dot_size \div 2 + dy)
                   IN  for_range(cols, b, 0, dot_size, 1)
            IN  for_range(rows, bm, 0, dot_size, 1)

\* Variant: the bits assigned to the dots row by row.
braille_row_major(unicode_cp, bm, w, h) ==
   LET pattern == unicode_cp - \h2800
       dot_r == Max(1, Min(w, h) \div 8)
       col_x == [c \in 0..1 |-> IF c = 0 THEN w \div 3 ELSE (w * 2) \div 3]
       row_y == [i \in 0..3 |-> (h * (i + 1)) \div 5]
       body(b, k) ==
          IF (pattern \div (2 ^ k)) % 2 = 1
          THEN fill_circle(b, col_x[k % 2], row_y[k \div 2], dot_r)
          ELSE b
   IN  for_range(body, bm, 0, 8, 1)

\* render_glyph, lines 756-775: Braille patterns
braille(unicode_cp, bm, w, h) ==
   LET pattern == unicode_cp - \h2800
       dot_r == Max(1, Min(w, h) \div 8)
       col_x == [c \in 0..1 |-> IF c = 0 THEN w \div 3 ELSE (w * 2) \div 3]
       row_y == [i \in 0..3 |-> (h * (i + 1)) \div 5]
       \* <<row, col, bit>>
       dot_map == << <<0, 0, 0>>, <<1, 0, 1>>, <<2, 0, 2>>,
                     <<0, 1, 3>>, <<1, 1, 4>>, <<2, 1, 5>>,
                     <<3, 0, 6>>, <<3, 1, 7>> >>
       body(b, k) ==
          LET row == dot_map[k + 1][1]
              col == dot_map[k + 1][2]
              bit == dot_map[k + 1][3]
          IN  IF (pattern \div (2 ^ bit)) % 2 = 1
              THEN fill_circle(b, col_x[col], row_y[row], dot_r)
              ELSE b
   IN  for_range(body, bm, 0, 8, 1)

\* Variant: the centre pixel set as well.
unknown_glyph_with_centre(bm, h, cx, cy) ==
   set(set(set(set(set(bm, cx, 1), cx - 1, cy), cx + 1, cy), cx, h - 2), cx, cy)

\* render_glyph, lines 926-931: the final else branch
unknown_glyph(bm, h, cx, cy) ==
   LET b1 == set(bm, cx, 1)
       b2 == set(b1, cx - 1, cy)
       b3 == set(b2, cx + 1, cy)
       b4 == set(b3, cx, h - 2)
   IN  b4

\* render_glyph: the if / elif chain, one arm per section.
render_glyph(unicode_cp, w, h) ==
   LET bm == Bitmap(w, h)
       cx == w \div 2
       cy == h \div 2
   IN  CASE unicode_cp \in box_single_cps -> box_single(unicode_cp, bm, w, h, cx, cy)
         [] unicode_cp \in box_double_cps -> box_double(unicode_cp, bm, w, h, cx, cy)
         [] unicode_cp \in box_mixed_cps -> box_mixed(unicode_cp, bm, w, h, cx, cy)
         [] unicode_cp \in box_half_heavy_cps -> box_half_heavy(unicode_cp, bm, w, h, cx, cy)
         [] unicode_cp \in block_elements_cps -> block_elements(unicode_cp, bm, w, h, cx, cy)
         [] unicode_cp \in shading_cps -> shading(unicode_cp, bm, w, h, cx, cy)
         [] unicode_cp \in geometric_cps -> geometric(unicode_cp, bm, w, h, cx, cy)
         [] unicode_cp \in suits_faces_notes_cps -> suits_faces_notes(unicode_cp, bm, w, h, cx, cy)
         [] unicode_cp \in marks_arrows_cps -> marks_arrows(unicode_cp, bm, w, h, cx, cy)
         [] unicode_cp \in spinner_cps -> spinner(unicode_cp, bm, w, h, cx, cy)
         [] \h2800 <= unicode_cp /\ unicode_cp <= \h28FF -> braille(unicode_cp, bm, w, h)
         [] unicode_cp \in pointer_cps -> pointer(unicode_cp, bm, w, h, cx, cy)
         [] unicode_cp \in quadrants_cps -> quadrants(unicode_cp, bm, w, h, cx, cy)
         [] unicode_cp \in figures_cps -> figures(unicode_cp, bm, w, h, cx, cy)
         [] OTHER -> unknown_glyph(bm, h, cx, cy)

(***************************************************************************)
(* Text helpers                                                            *)
(***************************************************************************)

HexChars == <<"0", "1", "2", "3", "4", "5", "6", "7",
              "8", "9", "A", "B", "C", "D", "E", "F">>

\* The hexadecimal digits of v >= 0, most significant first.
RECURSIVE hex_digits(_)
hex_digits(v) ==
   IF v < 16 THEN HexChars[v + 1]
   ELSE hex_digits(v \div 16) \o HexChars[(v % 16) + 1]

\* '0' * n
RECURSIVE zeros(_)
zeros(n) == IF n <= 0 THEN "" ELSE "0" \o zeros(n - 1)

\* f'{v:0<width>X}': upper-case hexadecimal, zero-padded to at least width
\* characters (a longer number is not cut; a negative one carries a sign).
format_X(v, width) ==
   LET sign == IF v < 0 THEN "-" ELSE ""
       d == hex_digits(abs(v))
       pad == zeros(width - Len(sign) - Len(d))
   IN  sign \o pad \o d

\* ''.join(f[lo..hi])
RECURSIVE join(_, _, _)
join(f, lo, hi) ==
   IF lo > hi THEN ""
   ELSE IF lo = hi THEN f[lo]
   ELSE LET mid == (lo + hi) \div 2
        IN  join(f, lo, mid) \o join(f, mid + 1, hi)

\* The lists f[lo], ..., f[hi] concatenated (+= in a loop).
RECURSIVE list_join(_, _, _)
list_join(f, lo, hi) ==
   IF lo > hi THEN <<>>
   ELSE IF lo = hi THEN f[lo]
   ELSE LET mid == (lo + hi) \div 2
        IN  list_join(f, lo, mid) \o list_join(f, mid + 1, hi)

\* for j in range(0, len(text), 64): chunk = text[j:j+64]
chunks(text) ==
   [c \in 1..((Len(text) + 63) \div 64) |->
      SubSeq(text, 64 * (c - 1) + 1, Min(64 * c, Len(text)))]

\* One printed line.
Line(kind, text, args) == [kind |-> kind, text |-> text, args |-> args]

\* print(f'    $"{chunk}"') for every chunk of text
hex_lines(text) ==
   LET cs == chunks(text)
   IN  [c \in 1..Len(cs) |-> Line("hex", "$", cs[c])]

(***************************************************************************)
(* pack_nfnt                                                               *)
(***************************************************************************)

num_chars == LAST_CHAR - FIRST_CHAR + 1

\* Variant: the table size without the end sentinel.
table_entries_without_sentinel == num_chars + 1

table_entries == num_chars + 2

total_glyphs == num_chars + 1

strip_width(cw) == total_glyphs * cw

\* Variant: one word more than the rounding needs.
row_words_one_more(cw) == (strip_width(cw) + 31) \div 16

row_words(cw) == (strip_width(cw) + 15) \div 16

row_bits(cw) == row_words(cw) * 16

\* One pass of the render loop: the bitmap of one char code.
glyph_for(code, cw, ch) ==
   IF code \in DOMAIN CODE_TO_UNICODE
   THEN render_glyph(CODE_TO_UNICODE[code], cw, ch)
   ELSE Bitmap(cw, ch)

\* Variant: the box filled instead of outlined.
missing_glyph_filled(cw, ch) == fill_rect(Bitmap(cw, ch), 0, 0, cw, ch)

\* The missing glyph: a box.
missing_glyph(cw, ch) ==
   LET b0 == Bitmap(cw, ch)
       b1 == fill_rect(b0, 0, 0, cw, 1)
       b2 == fill_rect(b1, 0, ch - 1, cw, ch)
       b3 == fill_rect(b2, 0, 0, 1, ch)
       b4 == fill_rect(b3, cw - 1, 0, cw, ch)
   IN  b4

\* Lines 952-968: glyph_bitmaps after the render loop and the append of the
\* missing glyph.
render_all(cw, ch) ==
   [k \in 1..num_chars |-> glyph_for(FIRST_CHAR + (k - 1), cw, ch)]
      \o <<missing_glyph(cw, ch)>>

\* The indices written into row y of the strike: x_offset + x for every lit
\* pixel (x, y) of glyph gi.
strike_writes(bitmaps, y, cw) ==
   {p[1] * cw + p[2] :
      p \in {q \in (0..(Len(bitmaps) - 1)) \X range(0, cw) :
               /\ y < bitmaps[q[1] + 1].h
               /\ q[2] < bitmaps[q[1] + 1].w
               /\ bitmaps[q[1] + 1].pixels[y + 1][q[2] + 1] # 0}}

\* row = [0] * row_bits, then row[k] = 1 for every written index.
strike_row(bitmaps, y, cw) ==
   LET writes == strike_writes(bitmaps, y, cw)
   IN  [k \in 1..row_bits(cw) |-> IF (k - 1) \in writes THEN 1 ELSE 0]

\* Lines 972-980: strike_rows after the loop over y.
build_strike(bitmaps, cw, ch) ==
   [y1 \in 1..ch |-> strike_row(bitmaps, y1 - 1, cw)]

row_len(row) == Len(row)

\* Variant: least significant bit first.
pack_byte_lsb_first(row, i) ==
   LET bitval(bit) == IF i + bit < row_len(row) /\ row[i + bit + 1] # 0
                      THEN 2 ^ bit ELSE 0
   IN  bitval(0) + bitval(1) + bitval(2) + bitval(3)
       + bitval(4) + bitval(5) + bitval(6) + bitval(7)

\* The byte of the bits row[i .. i+7], most significant bit first.
pack_byte(row, i) ==
   LET bitval(bit) == IF i + bit < row_len(row) /\ row[i + bit + 1] # 0
                      THEN \h80 \div (2 ^ bit) ELSE 0
   IN  bitval(0) + bitval(1) + bitval(2) + bitval(3)
       + bitval(4) + bitval(5) + bitval(6) + bitval(7)

\* One row of the strike as hex text.
strike_hex_row(row, cw) ==
   LET n == (row_bits(cw) + 7) \div 8
       row_bytes == [j \in 1..n |-> pack_byte(row, 8 * (j - 1))]
       hex == [j \in 1..n |-> format_X(row_bytes[j], 2)]
   IN  join(hex, 1, n)

\* Lines 983-992: strike_hex_rows after the loop over the rows.
pack_strike(rows, cw) ==
   [r \in 1..Len(rows) |-> strike_hex_row(rows[r], cw)]

\* Variant: the end sentinel repeats the offset of the missing glyph.
loc_table_short_sentinel(cw) ==
   [k \in 1..num_chars |-> (k - 1) * cw]
      \o <<num_chars * cw>>
      \o <<num_chars * cw>>

\* Lines 994-1000: the location table.
loc_table(cw) ==
   [k \in 1..num_chars |-> (k - 1) * cw]
      \o <<num_chars * cw>>
      \o <<(num_chars + 1) * cw>>

\* Variant: an undefined code gets 0 instead of 0xFFFF.
ow_table_undefined_zero(cw) ==
   [k \in 1..num_chars |->
      IF (FIRST_CHAR + (k - 1)) \in DOMAIN CODE_TO_UNICODE
      THEN 0 * 256 + cw
      ELSE 0]
      \o <<0 * 256 + cw>>
      \o <<\hFFFF>>

\* Lines 1002-1014: the offset/width table.
\* (0 << 8) | cw is written 0 * 256 + cw (the same number for cw < 256).
ow_table(cw) ==
   [k \in 1..num_chars |->
      IF (FIRST_CHAR + (k - 1)) \in DOMAIN CODE_TO_UNICODE
      THEN 0 * 256 + cw
      ELSE \hFFFF]
      \o <<0 * 256 + cw>>
      \o <<\hFFFF>>

\* Variant: the offset counted from the start of the record.
owTLoc_from_record_start(cw, ch) ==
   LET strike_bytes == row_words(cw) * 2 * ch
       loc_bytes == table_entries * 2
       ow_table_byte == 26 + strike_bytes + loc_bytes
   IN  ow_table_byte \div 2

\* Variant: the offset counted in bits.
owTLoc_in_bits(cw, ch) ==
   LET strike_bytes == row_words(cw) * 2 * ch
       loc_bytes == table_entries * 2
       ow_table_byte == 26 + strike_bytes + loc_bytes
   IN  (ow_table_byte - 16) * 8

\* Lines 1016-1023: owTLoc.
owTLoc(cw, ch) ==
   LET strike_bytes == row_words(cw) * 2 * ch
       loc_bytes == table_entries * 2
       ow_table_byte == 26 + strike_bytes + loc_bytes
       owTLoc_byte == 16
   IN  (ow_table_byte - owTLoc_byte) \div 2

(***************************************************************************)
(* struct.pack and the FOND record                                         *)
(***************************************************************************)

\* struct.pack('>H', v): defined for 0 <= v <= 65535 (struct.error otherwise).
pack_H(v) ==
   CASE 0 <= v /\ v <= 65535 -> <<v \div 256, v % 256>>

\* struct.pack('>h', v): defined for -32768 <= v <= 32767.
pack_h(v) ==
   CASE -32768 <= v /\ v <= 32767 ->
           LET u == IF v < 0 THEN v + 65536 ELSE v
           IN  <<u \div 256, u % 256>>

\* struct.pack('>i', v), for the values 0 <= v < 2^31 the code packs.
pack_i(v) ==
   CASE 0 <= v /\ v <= 2147483647 ->
           <<v \div 16777216, (v \div 65536) % 256, (v \div 256) % 256, v % 256>>

\* bytes.hex().upper()
bytes_hex(bytes) ==
   join([k \in 1..Len(bytes) |-> format_X(bytes[k], 2)], 1, Len(bytes))

\* Variant: the defaults taken from the first configured size.
fond_header_first_size_defaults ==
   LET m == MONACO_METRICS[1]
       zeros9 == [k \in 1..9 |-> pack_h(0)]
   IN  pack_H(\h8000) \o pack_h(FOND_ID) \o pack_h(FIRST_CHAR) \o pack_h(LAST_CHAR)
          \o pack_h(m[4]) \o pack_h(m[5]) \o pack_h(m[6]) \o pack_h(m[2])
          \o pack_i(0) \o pack_i(0) \o pack_i(0)
          \o list_join(zeros9, 1, 9)
          \o pack_h(0) \o pack_h(0)
          \o pack_h(2)

\* The FOND header, lines 1124-1148.
fond_header ==
   LET fond_flags == \h8000
       default_asc == 12
       default_dsc == 3
       default_lead == 1
       default_wid == 7
       zeros9 == [k \in 1..9 |-> pack_h(0)]
   IN  pack_H(fond_flags) \o pack_h(FOND_ID) \o pack_h(FIRST_CHAR) \o pack_h(LAST_CHAR)
          \o pack_h(default_asc) \o pack_h(default_dsc) \o pack_h(default_lead)
          \o pack_h(default_wid)
          \o pack_i(0) \o pack_i(0) \o pack_i(0)
          \o list_join(zeros9, 1, 9)
          \o pack_h(0) \o pack_h(0)
          \o pack_h(2)

\* Variant: the ids counted from base + 1.
fond_assoc_ids_from_one ==
   LET num_entries == Len(MONACO_METRICS)
       entry == [k \in 1..num_entries |->
                   pack_h(MONACO_METRICS[k][1]) \o pack_h(0) \o pack_h(NFNT_BASE_ID + k)]
   IN  pack_h(num_entries - 1) \o list_join(entry, 1, num_entries)

\* The font association table, lines 1151-1157.
fond_assoc ==
   LET num_entries == Len(MONACO_METRICS)
       entry == [k \in 1..num_entries |->
                   pack_h(MONACO_METRICS[k][1]) \o pack_h(0) \o pack_h(NFNT_BASE_ID + (k - 1))]
   IN  pack_h(num_entries - 1) \o list_join(entry, 1, num_entries)

\* sorted(GLYPH_MAP.keys()), as the sequence of items in ascending key order.
sorted_items ==
   LET items == GLYPH_MAP_items
       keys == {items[k][1] : k \in DOMAIN items}
       rank(u) == Cardinality({v \in keys : v < u}) + 1
       at(r) == CHOOSE k \in DOMAIN items : rank(items[k][1]) = r
   IN  [r \in 1..Cardinality(keys) |-> items[at(r)]]

(***************************************************************************)
(* emit_rez, with the call of pack_nfnt inlined                            *)
(***************************************************************************)

VARIABLES
   pc,               \* position in emit_rez / pack_nfnt
   i,                \* emit_rez: index into MONACO_METRICS (0-based)
   glyph_bitmaps,    \* pack_nfnt: the rendered bitmaps
   strike_rows,      \* pack_nfnt: the rows of the strike
   strike_hex_rows,  \* pack_nfnt: the rows of the strike, as hex text
   data,             \* emit_rez: the dict pack_nfnt returned
   map_index,        \* emit_rez: position in sorted(GLYPH_MAP.keys()) (0-based)
   out,              \* the lines printed so far
   canvas,           \* a Bitmap used on its own: the object drawn on or returned
   call,             \* the Bitmap method or render_glyph call made on canvas
   heap,             \* the row lists allocated by Bitmap.__init__, by identity
   returned,         \* the Bitmaps returned by successive render_glyph calls
   table,            \* generate_unicode_table.generate: the table being built
   stage,            \* generate: the loop it is in
   item              \* generate: the items of the loop already done

vars == <<pc, i, glyph_bitmaps, strike_rows, strike_hex_rows, data, map_index, out,
          canvas, call, heap, returned, table, stage, item>>

\* The state of emit_rez, and the state of the functions called on their own.
emit_vars == <<pc, i, glyph_bitmaps, strike_rows, strike_hex_rows, data, map_index, out>>
function_vars == <<canvas, call, heap, returned>>
table_vars == <<table, stage, item>>

\* generate_unicode_table.generate is not running.
NoGenerate ==
   /\ table = <<>>
   /\ stage = "idle"
   /\ item = 0

\* No function is being called on its own.
NoFunctionCall ==
   /\ canvas = <<>>
   /\ call = <<>>
   /\ heap = <<>>
   /\ returned = <<>>

\* The metrics of the size being generated.
pt_size == MONACO_METRICS[i + 1][1]
cell_w == MONACO_METRICS[i + 1][2]
cell_h == MONACO_METRICS[i + 1][3]
ascent == MONACO_METRICS[i + 1][4]
descent == MONACO_METRICS[i + 1][5]
leading == MONACO_METRICS[i + 1][6]

Init ==
   /\ pc = "start"
   /\ i = 0
   /\ glyph_bitmaps = <<>>
   /\ strike_rows = <<>>
   /\ strike_hex_rows = <<>>
   /\ data = <<>>
   /\ map_index = 0
   /\ out = <<>>
   /\ NoFunctionCall
   /\ NoGenerate

\* Lines 1041-1045: the preamble.
Preamble ==
   /\ pc = "start"
   /\ out' = << Line("comment", "SevenTTY Symbols font - AUTO-GENERATED, do not edit", <<>>),
                Line("comment", "Generated by tools/generate_symbolfont.py", <<>>),
                Line("blank", "", <<>>),
                Line("include", "constants.r", <<>>),
                Line("blank", "", <<>>) >>
   /\ pc' = "loop"
   /\ UNCHANGED <<i, glyph_bitmaps, strike_rows, strike_hex_rows, data, map_index>>
   /\ UNCHANGED <<function_vars, table_vars>>

\* Line 1048, next entry: pack_nfnt is called.
NextSize ==
   /\ pc = "loop"
   /\ i < Len(MONACO_METRICS)
   /\ pc' = "render"
   /\ UNCHANGED <<i, glyph_bitmaps, strike_rows, strike_hex_rows, data, map_index, out>>
   /\ UNCHANGED <<function_vars, table_vars>>

\* Line 1048, entries exhausted.
SizesDone ==
   /\ pc = "loop"
   /\ i >= Len(MONACO_METRICS)
   /\ pc' = "fond"
   /\ UNCHANGED <<i, glyph_bitmaps, strike_rows, strike_hex_rows, data, map_index, out>>
   /\ UNCHANGED <<function_vars, table_vars>>

\* Lines 952-968: the glyphs of all char codes, then the missing glyph.  An
\* IndexError in a render ends the program.
RenderGlyphs ==
   /\ pc = "render"
   /\ glyph_bitmaps' = render_all(cell_w, cell_h)
   /\ pc' = IF \E k \in 1..Len(glyph_bitmaps') : glyph_bitmaps'[k].err
            THEN "IndexError"
            ELSE "strike"
   /\ UNCHANGED <<i, strike_rows, strike_hex_rows, data, map_index, out>>
   /\ UNCHANGED <<function_vars, table_vars>>

\* Lines 970-980: the strike.  A write beyond a row raises IndexError.
BuildStrike ==
   /\ pc = "strike"
   /\ IF \E y \in range(0, cell_h) :
            \E k \in strike_writes(glyph_bitmaps, y, cell_w) : k >= row_bits(cell_w)
      THEN /\ pc' = "IndexError"
           /\ UNCHANGED strike_rows
      ELSE /\ strike_rows' = build_strike(glyph_bitmaps, cell_w, cell_h)
           /\ pc' = "hex"
   /\ UNCHANGED <<i, glyph_bitmaps, strike_hex_rows, data, map_index, out>>
   /\ UNCHANGED <<function_vars, table_vars>>

\* Lines 982-992: the rows packed into bytes and hex text.
PackStrike ==
   /\ pc = "hex"
   /\ strike_hex_rows' = pack_strike(strike_rows, cell_w)
   /\ pc' = "tables"
   /\ UNCHANGED <<i, glyph_bitmaps, strike_rows, data, map_index, out>>
   /\ UNCHANGED <<function_vars, table_vars>>

\* Lines 994-1036: the tables, owTLoc and the returned dict.  pack_nfnt
\* returns: its locals are gone.
Tables ==
   /\ pc = "tables"
   /\ data' = [cell_w |-> cell_w, cell_h |-> cell_h, ascent |-> ascent,
               descent |-> descent, leading |-> leading,
               row_words |-> row_words(cell_w),
               owTLoc |-> owTLoc(cell_w, cell_h),
               strike_hex |-> strike_hex_rows,
               loc_table |-> loc_table(cell_w),
               ow_table |-> ow_table(cell_w)]
   /\ glyph_bitmaps' = <<>>
   /\ strike_rows' = <<>>
   /\ strike_hex_rows' = <<>>
   /\ pc' = "emit"
   /\ UNCHANGED <<i, map_index, out>>
   /\ UNCHANGED <<function_vars, table_vars>>

\* Variant: the descent not negated.
header_words_positive_descent(d, cw, ch, asc, dsc, lead) ==
   << \h9000, FIRST_CHAR, LAST_CHAR, cw, 0, dsc % 65536, cw, ch,
      d.owTLoc % 65536, asc, dsc, lead, d.row_words >>

\* Lines 1063-1085: the 13 header words.
header_words(d, cw, ch, asc, dsc, lead) ==
   LET font_type == \h9000
       neg_descent == -dsc
       fRectWidth == cw
       fRectHeight == ch
       kern_max == 0
   IN  << font_type, FIRST_CHAR, LAST_CHAR, cw, kern_max,
          neg_descent % 65536,
          fRectWidth, fRectHeight,
          d.owTLoc % 65536,
          asc, dsc, lead,
          d.row_words >>

\* Line 1088: the header as hex text.
header_hex(d, cw, ch, asc, dsc, lead) ==
   LET hw == header_words(d, cw, ch, asc, dsc, lead)
   IN  join([k \in 1..Len(hw) |-> format_X(hw[k] % 65536, 4)], 1, Len(hw))

\* Line 1100: the location table as hex text.
loc_hex(d) ==
   join([k \in 1..Len(d.loc_table) |-> format_X(d.loc_table[k], 4)], 1, Len(d.loc_table))

\* Line 1106: the offset/width table as hex text.
ow_hex(d) ==
   join([k \in 1..Len(d.ow_table) |-> format_X(d.ow_table[k] % 65536, 4)],
        1, Len(d.ow_table))

\* Lines 1087-1109: the hex lines of one NFNT resource.
nfnt_lines(d, cw, ch, asc, dsc, lead) ==
   LET strike == list_join([r \in 1..Len(d.strike_hex) |-> hex_lines(d.strike_hex[r])],
                           1, Len(d.strike_hex))
   IN  <<Line("hex", "$", header_hex(d, cw, ch, asc, dsc, lead))>>
          \o strike \o hex_lines(loc_hex(d)) \o hex_lines(ow_hex(d))

\* Variant: every resource gets the base id.
nfnt_id_shared(k) == NFNT_BASE_ID

\* Line 1049: the resource id of entry k (0-based).
nfnt_id(k) == NFNT_BASE_ID + k

\* Lines 1049-1112: one NFNT resource is printed.
EmitNfnt ==
   /\ pc = "emit"
   /\ out' = out
             \o << Line("comment", "NFNT for",
                        <<pt_size, cell_w, cell_h, ascent, descent, leading>>),
                   Line("data", "NFNT", <<nfnt_id(i), "SevenTTY Symbols", pt_size>>) >>
             \o nfnt_lines(data, cell_w, cell_h, ascent, descent, leading)
             \o << Line("end", "};", <<>>), Line("blank", "", <<>>) >>
   /\ i' = i + 1
   /\ pc' = "loop"
   /\ UNCHANGED <<glyph_bitmaps, strike_rows, strike_hex_rows, data, map_index>>
   /\ UNCHANGED <<function_vars, table_vars>>

\* Lines 1117-1165: the FOND resource is printed.
EmitFond ==
   /\ pc = "fond"
   /\ LET fond_data == fond_header \o fond_assoc
          fond_hex == bytes_hex(fond_data)
      IN  out' = out
                 \o << Line("comment", "Font family resource", <<>>),
                       Line("data", "FOND", <<FOND_ID, "SevenTTY Symbols">>) >>
                 \o hex_lines(fond_hex)
                 \o << Line("end", "};", <<>>), Line("blank", "", <<>>) >>
   /\ pc' = "map"
   /\ UNCHANGED <<i, glyph_bitmaps, strike_rows, strike_hex_rows, data, map_index>>
   /\ UNCHANGED <<function_vars, table_vars>>

\* Lines 1168-1169: the mapping comment is opened.
MapOpen ==
   /\ pc = "map"
   /\ out' = out
             \o << Line("comment", "Unicode -> symbol font char code mapping (for console.c)", <<>>),
                   Line("comment_open", "/*", <<>>) >>
   /\ map_index' = 0
   /\ pc' = "map_loop"
   /\ UNCHANGED <<i, glyph_bitmaps, strike_rows, strike_hex_rows, data>>
   /\ UNCHANGED <<function_vars, table_vars>>

\* Lines 1170-1172: one line of the mapping.
MapLine ==
   /\ pc = "map_loop"
   /\ map_index < Len(sorted_items)
   /\ out' = Append(out, Line("map", "U+ ->", sorted_items[map_index + 1]))
   /\ map_index' = map_index + 1
   /\ UNCHANGED <<pc, i, glyph_bitmaps, strike_rows, strike_hex_rows, data>>
   /\ UNCHANGED <<function_vars, table_vars>>

\* Line 1173: the mapping comment is closed and the program ends.
MapClose ==
   /\ pc = "map_loop"
   /\ map_index >= Len(sorted_items)
   /\ out' = Append(out, Line("comment_close", "*/", <<>>))
   /\ pc' = "done"
   /\ UNCHANGED <<i, glyph_bitmaps, strike_rows, strike_hex_rows, data, map_index>>
   /\ UNCHANGED <<function_vars, table_vars>>

Next ==
   \/ Preamble
   \/ NextSize
   \/ RenderGlyphs
   \/ BuildStrike
   \/ PackStrike
   \/ Tables
   \/ EmitNfnt
   \/ SizesDone
   \/ EmitFond
   \/ MapOpen
   \/ MapLine
   \/ MapClose

Spec == Init /\ [][Next]_vars

(***************************************************************************)
(* Reading the printed output back, as a resource compiler does            *)
(***************************************************************************)

\* The character at position k (from 1) of a string.
CharAt(t, k) == SubSeq(t, k, k)

HexVal(c) == CHOOSE v \in 0..15 : HexChars[v + 1] = c

IsHexText(t) ==
   /\ Len(t) % 2 = 0
   /\ \A k \in 1..Len(t) : \E v \in 0..15 : HexChars[v + 1] = CharAt(t, k)

\* The indices of the "data" lines of out.
DataLines == {k \in 1..Len(out) : out[k].kind = "data"}

\* The hex text of the resource whose "data" line is out[k]: the hex lines
\* up to its closing line, concatenated.
ResourceHex(k) ==
   LET e == SetMin({j \in (k + 1)..Len(out) : out[j].kind = "end"})
   IN  join([j \in (k + 1)..(e - 1) |-> out[j].args], k + 1, e - 1)

\* The byte at byte offset b of hex text.
HexByte(t, b) == (16 * HexVal(CharAt(t, (2 * b) + 1))) + HexVal(CharAt(t, (2 * b) + 2))

\* Hex text as bytes, indexed by byte offset.
HexBytes(t) == [b \in 0..((Len(t) \div 2) - 1) |-> HexByte(t, b)]

NumBytes(bytes) == Cardinality(DOMAIN bytes)

\* The big-endian 16-bit word at byte offset off.
WordAt(bytes, off) == (bytes[off] * 256) + bytes[off + 1]

\* An NFNT resource has just been printed: it is the last resource of out,
\* printed from MONACO_METRICS[i] (i already advanced) and from data.
NfntPrinted == pc = "loop" /\ i >= 1

LastNfntHex == ResourceHex(SetMax(DataLines))

\* The metrics entry of the resource just printed.
Printed == MONACO_METRICS[i]

\* The sum of the lengths of the strings of a sequence.
RECURSIVE TotalLen(_, _)
TotalLen(rows, r) == IF r = 0 THEN 0 ELSE Len(rows[r]) + TotalLen(rows, r - 1)

\* Where the offset/width table starts in the printed record: the byte length
\* of all that was printed before it (header, strike rows, location table).
OwTableStart ==
   LET m == Printed
   IN  (Len(header_hex(data, m[2], m[3], m[4], m[5], m[6]))
          + TotalLen(data.strike_hex, Len(data.strike_hex))
          + Len(loc_hex(data))) \div 2

\* The byte offset of the owTLoc field: the ninth header word.
OwTLocField == 16

\* The byte length of the 13-word header.
HeaderBytes == 26

\* The repertoire: code c has a symbol, and which one.
HasSymbol(c) == \E k \in 1..Len(GLYPH_MAP) : GLYPH_MAP[k][2] = c

SymbolOf(c) == GLYPH_MAP[CHOOSE k \in 1..Len(GLYPH_MAP) : GLYPH_MAP[k][2] = c][1]

\* numChars = lastChar - firstChar + 1, read from the header of a record.
NumCharsOf(bytes) == WordAt(bytes, 4) - WordAt(bytes, 2) + 1

\* Bit k of row y of the strike of a record whose rows are rowBytes long, the
\* most significant bit of a byte being its first.
StrikeBit(bytes, rowBytes, y, k) ==
   (bytes[HeaderBytes + (y * rowBytes) + (k \div 8)] \div (2 ^ (7 - (k % 8)))) % 2

\* The glyph expected in the cell of code c.
ExpectedGlyph(c, cw, ch) ==
   IF HasSymbol(c) THEN render_glyph(SymbolOf(c), cw, ch) ELSE Bitmap(cw, ch)

\* The one-pixel rectangle outline of a cw x ch cell.
BoxOutline(cw, ch, x, y) ==
   IF x = 0 \/ x = cw - 1 \/ y = 0 \/ y = ch - 1 THEN 1 ELSE 0

(***************************************************************************)
(* C1: for every configured size the owTLoc header word equals             *)
(* (byteOffsetOfTable - byteOffsetOfPointerField) / 2, the pointer field   *)
(* being at byte 16 and the table starting where it was actually printed,  *)
(* which is 26 + rowWords*2*cellHeight + 2*(numChars+2); the division is   *)
(* exact.                                                                  *)
(***************************************************************************)
C1_OwTLocIsWordOffset ==
   NfntPrinted =>
      LET t == LastNfntHex
          bytes == HexBytes(t)
          m == Printed
          rowWords == WordAt(bytes, 24)
      IN  /\ IsHexText(t)
          /\ OwTableStart = 26 + (rowWords * 2 * m[3]) + (2 * ((LAST_CHAR - FIRST_CHAR + 1) + 2))
          /\ (OwTableStart - OwTLocField) % 2 = 0
          /\ WordAt(bytes, OwTLocField) * 2 = OwTableStart - OwTLocField

\* The 9pt record has been printed: its table starts at byte 1610 and its
\* owTLoc word is 797.
C1_Witness ==
   /\ NfntPrinted /\ i = 1
   /\ OwTableStart = 1610
   /\ WordAt(HexBytes(LastNfntHex), OwTLocField) = 797

(***************************************************************************)
(* C2, as stated: in every printed font record,                            *)
(* pointerFieldByteAddress + 2 + 2*offsetValue is the byte address of the  *)
(* offset/width table.                                                     *)
(***************************************************************************)
C2_AsStated ==
   NfntPrinted =>
      OwTLocField + 2 + (2 * WordAt(HexBytes(LastNfntHex), OwTLocField)) = OwTableStart

(***************************************************************************)
(* C2, amended: in every printed font record,                              *)
(* pointerFieldByteAddress + 2*offsetValue is the byte address of the      *)
(* offset/width table: the offset counts from the field's own address.     *)
(***************************************************************************)
C2_OffsetCountsFromField ==
   NfntPrinted =>
      OwTLocField + (2 * WordAt(HexBytes(LastNfntHex), OwTLocField)) = OwTableStart

\* The 9pt record: 16 + 2*797 is the table's address 1610, and 16 + 2 + 2*797
\* is two bytes into the table.
C2_Witness ==
   /\ NfntPrinted /\ i = 1
   /\ OwTLocField + (2 * WordAt(HexBytes(LastNfntHex), OwTLocField)) = 1610
   /\ OwTableStart = 1610
   /\ OwTLocField + 2 + (2 * WordAt(HexBytes(LastNfntHex), OwTLocField)) = 1612

(***************************************************************************)
(* C3: in every printed font record the offset/width table is the last     *)
(* numChars+2 words (numChars = lastChar - firstChar + 1): the entry of a  *)
(* code of [firstChar, lastChar] is cellWidth, high byte 0, if the code    *)
(* has a symbol in the repertoire and 0xFFFF if it has none; the next      *)
(* entry (missing glyph) is cellWidth; the last (sentinel) is 0xFFFF.      *)
(***************************************************************************)
C3_OffsetWidthTable ==
   NfntPrinted =>
      LET bytes == HexBytes(LastNfntHex)
          nc == NumCharsOf(bytes)
          cw == Printed[2]
          start == OwTableStart
          entry(k) == WordAt(bytes, start + (2 * k))
      IN  /\ nc = LAST_CHAR - FIRST_CHAR + 1
          /\ NumBytes(bytes) = start + (2 * (nc + 2))
          /\ cw < 256
          /\ \A k \in 0..(nc - 1) :
                entry(k) = IF HasSymbol(FIRST_CHAR + k) THEN cw ELSE 65535
          /\ entry(nc) = cw
          /\ entry(nc + 1) = 65535

\* The 9pt record: code 0x20 has no symbol and its entry is 0xFFFF, code 0x21
\* has one and its entry is 6; the table is the last 144 words.
C3_Witness ==
   /\ NfntPrinted /\ i = 1
   /\ ~HasSymbol(32) /\ HasSymbol(33)
   /\ LET bytes == HexBytes(LastNfntHex)
      IN  /\ WordAt(bytes, OwTableStart) = 65535
          /\ WordAt(bytes, OwTableStart + 2) = 6
          /\ WordAt(bytes, OwTableStart + (2 * 142)) = 6
          /\ WordAt(bytes, OwTableStart + (2 * 143)) = 65535
          /\ NumBytes(bytes) = OwTableStart + 288

(***************************************************************************)
(* C4: in every printed font record the location table, the words between  *)
(* the strike and the offset/width table, has exactly numChars+2 entries;  *)
(* entry k is k * cellWidth (the missing glyph at numChars * cellWidth,    *)
(* the end sentinel at (numChars+1) * cellWidth), and consecutive entries  *)
(* differ by cellWidth, without exception.                                 *)
(***************************************************************************)
C4_LocationTable ==
   NfntPrinted =>
      LET bytes == HexBytes(LastNfntHex)
          nc == NumCharsOf(bytes)
          cw == Printed[2]
          ch == Printed[3]
          start == HeaderBytes + (WordAt(bytes, 24) * 2 * ch)
          entry(k) == WordAt(bytes, start + (2 * k))
      IN  /\ OwTableStart - start = 2 * (nc + 2)
          /\ \A k \in 0..(nc + 1) : entry(k) = k * cw
          /\ \A k \in 0..nc : entry(k + 1) - entry(k) = cw

\* The 9pt record: 144 entries from byte 1322, the last two 852 and 858.
C4_Witness ==
   /\ NfntPrinted /\ i = 1
   /\ LET bytes == HexBytes(LastNfntHex)
      IN  /\ OwTableStart - 1322 = 288
          /\ WordAt(bytes, 1322 + 2) = 6
          /\ WordAt(bytes, 1322 + (2 * 142)) = 852
          /\ WordAt(bytes, 1322 + (2 * 143)) = 858

(***************************************************************************)
(* C5: in every printed font record the strike holds numChars+1 cells: bit *)
(* (y, g*cellWidth + x) is pixel (x, y) of glyph g, glyph g < numChars     *)
(* being the rendering of the symbol of code firstChar+g (all zero when    *)
(* the code has no symbol) and glyph numChars the missing-glyph box, the   *)
(* one-pixel outline of the cell; every bit at a column >=                 *)
(* (numChars+1)*cellWidth is 0.                                            *)
(***************************************************************************)
C5_StrikeHoldsGlyphs ==
   NfntPrinted =>
      LET bytes == HexBytes(LastNfntHex)
          nc == NumCharsOf(bytes)
          cw == Printed[2]
          ch == Printed[3]
          rowBytes == 2 * WordAt(bytes, 24)
      IN  /\ \A g \in 0..(nc - 1) :
                LET glyph == ExpectedGlyph(FIRST_CHAR + g, cw, ch)
                IN  \A y \in 0..(ch - 1) : \A x \in 0..(cw - 1) :
                       StrikeBit(bytes, rowBytes, y, (g * cw) + x) = glyph.pixels[y + 1][x + 1]
          /\ \A y \in 0..(ch - 1) : \A x \in 0..(cw - 1) :
                StrikeBit(bytes, rowBytes, y, (nc * cw) + x) = BoxOutline(cw, ch, x, y)
          /\ \A y \in 0..(ch - 1) : \A k \in ((nc + 1) * cw)..((8 * rowBytes) - 1) :
                StrikeBit(bytes, rowBytes, y, k) = 0

\* The 9pt record: the middle dot of code 0xAD (cell 141) is lit at pixel
\* (3, 6) and nowhere in row 0, the cell of code 0x20 is blank, the box of
\* cell 142 has its corner lit and its inside dark, and the six padding bits
\* of a row are 0.
C5_Witness ==
   /\ NfntPrinted /\ i = 1
   /\ LET bytes == HexBytes(LastNfntHex)
      IN  /\ StrikeBit(bytes, 108, 6, (141 * 6) + 3) = 1
          /\ render_glyph(SymbolOf(173), 6, 12).pixels[7][4] = 1
          /\ \A x \in 0..5 : StrikeBit(bytes, 108, 0, (141 * 6) + x) = 0
          /\ \A y \in 0..11 : \A x \in 0..5 : StrikeBit(bytes, 108, y, x) = 0
          /\ StrikeBit(bytes, 108, 0, 142 * 6) = 1
          /\ StrikeBit(bytes, 108, 5, (142 * 6) + 2) = 0
          /\ \A k \in 858..863 : StrikeBit(bytes, 108, 11, k) = 0

(***************************************************************************)
(* C6: in every printed font record the bit width of a strike row is a     *)
(* multiple of 16, is >= (numDefinedChars+1) * cellWidth, and is the       *)
(* smallest multiple of 16 that is >= (numChars+1) * cellWidth; the        *)
(* rowWords header word is that width / 16.                                *)
(***************************************************************************)
C6_RowWidth ==
   NfntPrinted =>
      LET bytes == HexBytes(LastNfntHex)
          nc == NumCharsOf(bytes)
          cw == Printed[2]
          ch == Printed[3]
          numDefinedChars == Cardinality({c \in FIRST_CHAR..LAST_CHAR : HasSymbol(c)})
          rowBits(r) == 4 * Len(data.strike_hex[r])
      IN  /\ Len(data.strike_hex) = ch
          /\ \A r \in 1..ch :
                /\ rowBits(r) % 16 = 0
                /\ rowBits(r) >= (numDefinedChars + 1) * cw
                /\ rowBits(r) >= (nc + 1) * cw
                /\ rowBits(r) - 16 < (nc + 1) * cw
                /\ WordAt(bytes, 24) * 16 = rowBits(r)

\* The 9pt record: 143 cells of 6 bits are 858 bits, a row is 864 bits, and
\* rowWords is 54.
C6_Witness ==
   /\ NfntPrinted /\ i = 1
   /\ 4 * Len(data.strike_hex[1]) = 864
   /\ WordAt(HexBytes(LastNfntHex), 24) = 54
   /\ Cardinality({c \in FIRST_CHAR..LAST_CHAR : HasSymbol(c)}) = 141

(***************************************************************************)
(* C7: every strike row is packed into exactly rowBits/8 bytes, most       *)
(* significant bit first: bit k of the row is stored in byte k div 8 under *)
(* mask 0x80 >> (k mod 8), so unpacking gives the row back bit for bit;    *)
(* the packed rows are handed over and printed in the order of the rows,   *)
(* top to bottom.                                                          *)
(***************************************************************************)
C7_PackedMsbFirst ==
   /\ [](pc = "tables" =>
            /\ Len(strike_hex_rows) = Len(strike_rows)
            /\ \A r \in 1..Len(strike_rows) :
                  LET row == strike_rows[r]
                      hex == strike_hex_rows[r]
                  IN  /\ Len(row) % 8 = 0
                      /\ Len(hex) = 2 * (Len(row) \div 8)
                      /\ \A k \in 0..(Len(row) - 1) :
                            (HexByte(hex, k \div 8) \div (128 \div (2 ^ (k % 8)))) % 2
                               = row[k + 1])
   /\ [][pc = "tables" => data'.strike_hex = strike_hex_rows]_vars
   /\ [](NfntPrinted =>
            LET t == LastNfntHex
                rowChars == Len(data.strike_hex[1])
            IN  \A r \in 1..Len(data.strike_hex) :
                   SubSeq(t, (2 * HeaderBytes) + ((r - 1) * rowChars) + 1,
                             (2 * HeaderBytes) + (r * rowChars)) = data.strike_hex[r])

\* The rows of the 9pt strike have been packed: bit 852 of row 0 (the corner
\* of the missing-glyph box) is set, and so is mask 0x08 of byte 106.
C7_Witness ==
   /\ pc = "tables" /\ i = 0
   /\ Len(strike_rows[1]) = 864
   /\ strike_rows[1][853] = 1
   /\ Len(strike_hex_rows[1]) = 216
   /\ (HexBytes(strike_hex_rows[1])[106] \div 8) % 2 = 1

(***************************************************************************)
(* C8: every printed font record starts with exactly 13 big-endian 16-bit  *)
(* words, in this order: 0x9000, firstChar 0x20, lastChar 0xAD, widMax =   *)
(* cellWidth, kernMax = 0, nDescent = the 16-bit two's complement of       *)
(* -descent, fRectWidth = cellWidth, fRectHeight = cellHeight, owTLoc,     *)
(* ascent, descent, leading, rowWords, each from the metrics entry of the  *)
(* size; then come the strike, the location table and the offset/width     *)
(* table, and nothing else.                                                *)
(***************************************************************************)
C8_HeaderAndLayout ==
   NfntPrinted =>
      LET bytes == HexBytes(LastNfntHex)
          m == Printed
          rowBytes == Len(data.strike_hex[1]) \div 2
          strikeBytes == rowBytes * Len(data.strike_hex)
          locStart == HeaderBytes + strikeBytes
          owStart == locStart + (2 * Len(data.loc_table))
      IN  /\ WordAt(bytes, 0) = 36864
          /\ WordAt(bytes, 2) = 32
          /\ WordAt(bytes, 4) = 173
          /\ WordAt(bytes, 6) = m[2]
          /\ WordAt(bytes, 8) = 0
          /\ WordAt(bytes, 10) = (65536 - m[5]) % 65536
          /\ WordAt(bytes, 12) = m[2]
          /\ WordAt(bytes, 14) = m[3]
          /\ WordAt(bytes, 16) = data.owTLoc
          /\ WordAt(bytes, 18) = m[4]
          /\ WordAt(bytes, 20) = m[5]
          /\ WordAt(bytes, 22) = m[6]
          /\ WordAt(bytes, 24) = data.row_words
          /\ \A r \in 1..Len(data.strike_hex) :
                LET row == HexBytes(data.strike_hex[r])
                IN  /\ NumBytes(row) = rowBytes
                    /\ \A b \in 0..(rowBytes - 1) :
                          bytes[HeaderBytes + ((r - 1) * rowBytes) + b] = row[b]
          /\ \A k \in 1..Len(data.loc_table) :
                WordAt(bytes, locStart + (2 * (k - 1))) = data.loc_table[k]
          /\ \A k \in 1..Len(data.ow_table) :
                WordAt(bytes, owStart + (2 * (k - 1))) = data.ow_table[k]
          /\ NumBytes(bytes) = owStart + (2 * Len(data.ow_table))

\* The 9pt record (6 x 12, ascent 9, descent 2, leading 0): nDescent is
\* 0xFFFE, and the strike starts at byte 26 with the first byte of row 0.
C8_Witness ==
   /\ NfntPrinted /\ i = 1
   /\ LET bytes == HexBytes(LastNfntHex)
      IN  /\ WordAt(bytes, 0) = 36864
          /\ WordAt(bytes, 6) = 6
          /\ WordAt(bytes, 10) = 65534
          /\ WordAt(bytes, 14) = 12
          /\ WordAt(bytes, 18) = 9
          /\ WordAt(bytes, 20) = 2
          /\ WordAt(bytes, 22) = 0
          /\ bytes[26] = HexBytes(data.strike_hex[1])[0]
          /\ NumBytes(bytes) = 1898

\* The FOND resource has been printed: it is the last resource of out.
FondPrinted == pc \in {"map", "map_loop", "done"}

\* The byte length of the FOND header, where the association table starts:
\* eight words, three long words, nine property words, two international
\* words and the version word.
FondHeaderBytes == (8 * 2) + (3 * 4) + (9 * 2) + (2 * 2) + 2

\* The "data" lines of the NFNT resources printed.
NfntLines == {k \in DataLines : out[k].text = "NFNT"}

FondLines == {k \in DataLines : out[k].text = "FOND"}

(***************************************************************************)
(* C9: the association table of the printed family resource starts with    *)
(* (number of configured sizes - 1) and holds exactly one triple           *)
(* (pointSize, style 0, fontResourceId) per configured size, in ascending  *)
(* point-size order; each fontResourceId is the id under which the font    *)
(* resource of that point size was printed.                                *)
(***************************************************************************)
C9_AssociationTable ==
   FondPrinted =>
      LET bytes == HexBytes(ResourceHex(SetMax(DataLines)))
          count == Len(MONACO_METRICS)
          pt(k) == WordAt(bytes, FondHeaderBytes + 2 + (6 * k))
          style(k) == WordAt(bytes, FondHeaderBytes + 4 + (6 * k))
          id(k) == WordAt(bytes, FondHeaderBytes + 6 + (6 * k))
      IN  /\ WordAt(bytes, FondHeaderBytes) = count - 1
          /\ NumBytes(bytes) = FondHeaderBytes + 2 + (6 * count)
          /\ \A k \in 0..(count - 1) :
                /\ pt(k) = MONACO_METRICS[k + 1][1]
                /\ style(k) = 0
                /\ \E j \in NfntLines : out[j].args[3] = pt(k) /\ out[j].args[1] = id(k)
                /\ \A j \in NfntLines : out[j].args[3] = pt(k) => out[j].args[1] = id(k)
          /\ \A k \in 0..(count - 2) : pt(k) < pt(k + 1)

\* The family resource of the seven sizes: the count field is 6, the first
\* triple is (9, 0, 200) and the last (36, 0, 206).
C9_Witness ==
   /\ pc = "map"
   /\ LET bytes == HexBytes(ResourceHex(SetMax(DataLines)))
      IN  /\ WordAt(bytes, 52) = 6
          /\ WordAt(bytes, 54) = 9 /\ WordAt(bytes, 56) = 0 /\ WordAt(bytes, 58) = 200
          /\ WordAt(bytes, 90) = 36 /\ WordAt(bytes, 92) = 0 /\ WordAt(bytes, 94) = 206
          /\ \E j \in NfntLines : out[j].args[3] = 36 /\ out[j].args[1] = 206

(***************************************************************************)
(* C10: the order of emission is fixed.  The font resources are printed    *)
(* one per configured size in ascending point-size order, with the         *)
(* pairwise distinct ids base, base+1, ...; the glyphs of each are in      *)
(* ascending character-code order; the one family resource is printed only *)
(* after every font resource.                                              *)
(***************************************************************************)
C10_EmissionOrder ==
   LET lines == DataLines
       rank(k) == Cardinality({j \in lines : j < k})
   IN  /\ \A k \in lines :
             IF rank(k) < Len(MONACO_METRICS)
             THEN /\ out[k].text = "NFNT"
                  /\ out[k].args[1] = NFNT_BASE_ID + rank(k)
                  /\ out[k].args[3] = MONACO_METRICS[rank(k) + 1][1]
             ELSE /\ out[k].text = "FOND"
                  /\ rank(k) = Len(MONACO_METRICS)
       /\ \A j \in NfntLines : \A k \in NfntLines :
             j < k => /\ out[j].args[3] < out[k].args[3]
                      /\ out[j].args[1] # out[k].args[1]
       /\ Cardinality(NfntLines) = i
       /\ pc = "strike" =>
             /\ Len(glyph_bitmaps) = (LAST_CHAR - FIRST_CHAR + 1) + 1
             /\ \A g \in 0..(LAST_CHAR - FIRST_CHAR) :
                   glyph_bitmaps[g + 1].pixels
                      = ExpectedGlyph(FIRST_CHAR + g, cell_w, cell_h).pixels

\* The whole output: seven font resources, ids 200..206, sizes 9..36, then
\* the family resource.
C10_Witness ==
   /\ pc = "map"
   /\ Cardinality(NfntLines) = 7
   /\ Cardinality(FondLines) = 1
   /\ \A j \in NfntLines : j < SetMax(FondLines)
   /\ {out[j].args[1] : j \in NfntLines} = 200..206
   /\ {out[j].args[3] : j \in NfntLines} = {9, 10, 12, 14, 18, 24, 36}

(***************************************************************************)
(* C11: the header of the printed family resource is, in order, the flags  *)
(* word with the fixed-width bit (0x8000), the family id, firstChar,       *)
(* lastChar, the default ascent, descent, leading and maxWidth, three zero *)
(* 32-bit table offsets, nine zero property words, two zero international  *)
(* words and version 2: 52 bytes, after which the association table        *)
(* starts; and the four defaults are the ascent, descent, leading and      *)
(* cell width of one configured size entry, the 12pt one.                  *)
(***************************************************************************)
C11_FamilyHeader ==
   FondPrinted =>
      LET bytes == HexBytes(ResourceHex(SetMax(FondLines)))
          count == Len(MONACO_METRICS)
          twelve == {k \in 1..count : MONACO_METRICS[k][1] = 12}
      IN  /\ WordAt(bytes, 0) = \h8000
          /\ WordAt(bytes, 2) = FOND_ID
          /\ WordAt(bytes, 4) = FIRST_CHAR
          /\ WordAt(bytes, 6) = LAST_CHAR
          /\ Cardinality(twelve) = 1
          /\ \A k \in twelve :
                /\ WordAt(bytes, 8) = MONACO_METRICS[k][4]
                /\ WordAt(bytes, 10) = MONACO_METRICS[k][5]
                /\ WordAt(bytes, 12) = MONACO_METRICS[k][6]
                /\ WordAt(bytes, 14) = MONACO_METRICS[k][2]
          /\ \A b \in 16..49 : bytes[b] = 0
          /\ WordAt(bytes, 50) = 2
          /\ FondHeaderBytes = 52
          /\ WordAt(bytes, FondHeaderBytes) = count - 1
          /\ NumBytes(bytes) = FondHeaderBytes + 2 + (6 * count)

\* The family resource as printed: flags 0x8000, id 200, codes 0x20..0xAD,
\* defaults 12, 3, 1, 7 and version 2.
C11_Witness ==
   /\ pc = "map"
   /\ LET bytes == HexBytes(ResourceHex(SetMax(FondLines)))
      IN  /\ WordAt(bytes, 0) = 32768 /\ WordAt(bytes, 2) = 200
          /\ WordAt(bytes, 4) = 32 /\ WordAt(bytes, 6) = 173
          /\ WordAt(bytes, 8) = 12 /\ WordAt(bytes, 10) = 3
          /\ WordAt(bytes, 12) = 1 /\ WordAt(bytes, 14) = 7
          /\ WordAt(bytes, 50) = 2

\* The lines of the mapping comment printed so far.
MapLines == {k \in 1..Len(out) : out[k].kind = "map"}

(***************************************************************************)
(* C12: the symbol-to-code mapping is injective and every assigned code    *)
(* lies in [0x20, 0xAD].  No two symbols share a character code, so the    *)
(* reverse map built from it has exactly one entry per mapped symbol and   *)
(* gives, for every used code, the one symbol mapped to it; the mapping    *)
(* printed in the closing comment never repeats a symbol or a code.        *)
(***************************************************************************)
C12_MappingInjective ==
   LET items == GLYPH_MAP_items
       used == {items[k][2] : k \in DOMAIN items}
   IN  /\ \A j \in DOMAIN items : \A k \in DOMAIN items :
             items[j][2] = items[k][2] => j = k
       /\ \A k \in DOMAIN items :
             FIRST_CHAR <= items[k][2] /\ items[k][2] <= LAST_CHAR
       /\ DOMAIN CODE_TO_UNICODE = used
       /\ Cardinality(DOMAIN CODE_TO_UNICODE) = Cardinality(DOMAIN items)
       /\ \A k \in DOMAIN items : CODE_TO_UNICODE[items[k][2]] = items[k][1]
       /\ \A c \in used :
             {items[k][1] : k \in {j \in DOMAIN items : items[j][2] = c}}
                = {CODE_TO_UNICODE[c]}
       /\ \A j \in MapLines : \A k \in MapLines :
             j # k => /\ out[j].args[1] # out[k].args[1]
                      /\ out[j].args[2] # out[k].args[2]
       /\ pc = "done" => Cardinality(MapLines) = Cardinality(DOMAIN CODE_TO_UNICODE)

\* The whole mapping has been printed: 141 lines, 141 symbols, 141 codes,
\* among them U+2500 -> 0x9B, which the reverse map takes back.
C12_Witness ==
   /\ pc = "map_loop"
   /\ map_index = 141
   /\ Cardinality({out[k].args[1] : k \in MapLines}) = 141
   /\ Cardinality({out[k].args[2] : k \in MapLines}) = 141
   /\ \E k \in MapLines : out[k].args = <<\h2500, \h9B>>
   /\ CODE_TO_UNICODE[\h9B] = \h2500

(***************************************************************************)
(* class Bitmap used on its own: any sequence of drawing calls on one      *)
(* canvas, with coordinates inside, left of, above and beyond the canvas   *)
(***************************************************************************)

\* The canvas drawn on is CanvasW x CanvasH; arguments reach Beyond pixels
\* outside it on every side.
CanvasW == 3

CanvasH == 2

Beyond == 1

XCoord == (0 - Beyond)..(CanvasW + Beyond)

YCoord == (0 - Beyond)..(CanvasH + Beyond)

Radius == 0..(Beyond + 1)

\* density, in hundredths
Density == {0, 25, 50, 75, 100}

\* The vertices tried for fill_triangle: outside on either side, or inside.
TriangleVertex ==
   {0 - Beyond, CanvasW \div 2, CanvasW + Beyond}
      \X {0 - Beyond, CanvasH \div 2, CanvasH + Beyond}

\* emit_rez is not running.
NoEmit ==
   /\ pc = "idle"
   /\ i = 0
   /\ glyph_bitmaps = <<>>
   /\ strike_rows = <<>>
   /\ strike_hex_rows = <<>>
   /\ data = <<>>
   /\ map_index = 0
   /\ out = <<>>

\* bm = Bitmap(CanvasW, CanvasH)
CanvasInit ==
   /\ NoEmit
   /\ NoGenerate
   /\ canvas = Bitmap(CanvasW, CanvasH)
   /\ call = <<>>
   /\ heap = <<>>
   /\ returned = <<>>

\* A method is called on the canvas and runs to its end, or to the
\* IndexError it raises (result.err); call keeps the canvas as it was.
Invoke(op, args, result) ==
   /\ call = <<>>
   /\ call' = [op |-> op, args |-> args, before |-> canvas]
   /\ canvas' = result
   /\ UNCHANGED <<emit_vars, table_vars, heap, returned>>

call_set ==
   \E x \in XCoord : \E y \in YCoord :
      Invoke("set", <<x, y>>, set(canvas, x, y))

call_fill_rect ==
   \E x0 \in XCoord : \E y0 \in YCoord : \E x1 \in XCoord : \E y1 \in YCoord :
      Invoke("fill_rect", <<x0, y0, x1, y1>>, fill_rect(canvas, x0, y0, x1, y1))

call_hline ==
   \E y \in YCoord : \E x0 \in XCoord : \E x1 \in XCoord :
      Invoke("hline", <<y, x0, x1>>, hline(canvas, y, x0, x1))

call_vline ==
   \E x \in XCoord : \E y0 \in YCoord : \E y1 \in YCoord :
      Invoke("vline", <<x, y0, y1>>, vline(canvas, x, y0, y1))

call_dither ==
   \E density \in Density :
      Invoke("dither", <<density>>, dither(canvas, density))

call_fill_circle ==
   \E cx \in XCoord : \E cy \in YCoord : \E r \in Radius :
      Invoke("fill_circle", <<cx, cy, r>>, fill_circle(canvas, cx, cy, r))

call_outline_circle ==
   \E cx \in XCoord : \E cy \in YCoord : \E r \in Radius :
      Invoke("outline_circle", <<cx, cy, r>>, outline_circle(canvas, cx, cy, r))

call_fill_triangle ==
   \E p1 \in TriangleVertex : \E p2 \in TriangleVertex : \E p3 \in TriangleVertex :
      Invoke("fill_triangle", <<p1, p2, p3>>, fill_triangle(canvas, <<p1, p2, p3>>))

\* The method returned normally: the caller goes on with the same canvas.
\* After an IndexError there is no next call.
call_return ==
   /\ call # <<>>
   /\ ~canvas.err
   /\ call' = <<>>
   /\ UNCHANGED <<canvas, emit_vars, table_vars, heap, returned>>

CanvasNext ==
   \/ call_set
   \/ call_fill_rect
   \/ call_hline
   \/ call_vline
   \/ call_dither
   \/ call_fill_circle
   \/ call_outline_circle
   \/ call_fill_triangle
   \/ call_return

CanvasSpec == CanvasInit /\ [][CanvasNext]_vars

\* The pixel (x, y) of a Bitmap, by its coordinates.
Pixel(bm, x, y) == bm.pixels[y + 1][x + 1]

\* The pixels of a Bitmap that are set.
Lit(bm) == {p \in range(0, bm.w) \X range(0, bm.h) : Pixel(bm, p[1], p[2]) = 1}

\* The grid of a Bitmap is exactly w x h.
IsGrid(bm, w, h) ==
   /\ bm.w = w
   /\ bm.h = h
   /\ DOMAIN bm.pixels = 1..h
   /\ \A y \in 1..h : DOMAIN bm.pixels[y] = 1..w
   /\ \A y \in 1..h : \A x \in 1..w : bm.pixels[y][x] \in {0, 1}

\* The region of the plane a call asks to be drawn, before any clipping: the
\* half-open rectangle or segment, the point, the dither pattern, the disc,
\* the ring, and for a triangle the bounding box of its vertices.
Requested(c, x, y) ==
   LET a == c.args
   IN  CASE c.op = "set" -> x = a[1] /\ y = a[2]
         [] c.op = "fill_rect" -> a[1] <= x /\ x < a[3] /\ a[2] <= y /\ y < a[4]
         [] c.op = "hline" -> y = a[1] /\ a[2] <= x /\ x < a[3]
         [] c.op = "vline" -> x = a[1] /\ a[2] <= y /\ y < a[3]
         [] c.op = "dither" ->
               \/ a[1] >= 75 /\ (x % 2 = 1 \/ y % 2 = 1)
               \/ a[1] >= 50 /\ a[1] < 75 /\ (x + y) % 2 = 0
               \/ a[1] >= 25 /\ a[1] < 50 /\ x % 2 = 0 /\ y % 2 = 0
         [] c.op = "fill_circle" ->
               ((x - a[1]) * (x - a[1])) + ((y - a[2]) * (y - a[2])) <= a[3] * a[3]
         [] c.op = "outline_circle" ->
               LET d == ((x - a[1]) * (x - a[1])) + ((y - a[2]) * (y - a[2])) - (a[3] * a[3])
               IN  (-3 * a[3]) <= 2 * d /\ 2 * d <= 3 * a[3]
         [] c.op = "fill_triangle" ->
               /\ \E k \in 1..3 : a[k][1] <= x
               /\ \E k \in 1..3 : x <= a[k][1]
               /\ \E k \in 1..3 : a[k][2] <= y
               /\ \E k \in 1..3 : y <= a[k][2]

Categorised ==
   box_single_cps \cup box_double_cps \cup box_mixed_cps \cup box_half_heavy_cps
      \cup block_elements_cps \cup shading_cps \cup geometric_cps
      \cup suits_faces_notes_cps \cup marks_arrows_cps \cup spinner_cps
      \cup (\h2800..\h28FF)
      \cup pointer_cps \cup quadrants_cps \cup figures_cps

\* Symbols no arm names: the ends of the code space, plain characters, and
\* neighbours of symbols that are named.
OtherSymbols == {0, \h20, \h41, \h2505, \h25A2, \h27FF, \h2900, \h10FFFF}

\* Symbols whose identifier lies in the range of the character codes.
CodeRangeSymbols == FIRST_CHAR..LAST_CHAR

\* The symbols of GLYPH_MAP.
Mapped == {GLYPH_MAP_items[k][1] : k \in DOMAIN GLYPH_MAP_items}

Symbols == Categorised \cup Mapped \cup OtherSymbols \cup CodeRangeSymbols

RenderInit ==
   /\ NoEmit
   /\ NoGenerate
   /\ NoFunctionCall

\* bm = render_glyph(unicode_cp, w, h), for a configured cell.
call_render_glyph ==
   \E unicode_cp \in Symbols : \E k \in 1..Len(MONACO_METRICS) :
      LET w == MONACO_METRICS[k][2]
          h == MONACO_METRICS[k][3]
      IN  /\ call = <<>>
          /\ call' = [op |-> "render_glyph", unicode_cp |-> unicode_cp, w |-> w, h |-> h]
          /\ canvas' = render_glyph(unicode_cp, w, h)
          /\ UNCHANGED <<emit_vars, table_vars, heap, returned>>

\* The caller drops the Bitmap; render_glyph can be called again.
drop_glyph ==
   /\ call # <<>>
   /\ ~canvas.err
   /\ call' = <<>>
   /\ canvas' = <<>>
   /\ UNCHANGED <<emit_vars, table_vars, heap, returned>>

RenderNext ==
   \/ call_render_glyph
   \/ drop_glyph

RenderSpec == RenderInit /\ [][RenderNext]_vars

\* render_glyph has returned the canvas of symbol cp.
Rendered(cp) == call # <<>> /\ call.unicode_cp = cp

\* The four pixels of the placeholder in a w x h cell.
Lozenge(w, h) ==
   LET cx == w \div 2
       cy == h \div 2
   IN  {<<cx, 1>>, <<cx - 1, cy>>, <<cx + 1, cy>>, <<cx, h - 2>>}

(***************************************************************************)
(* C14: rendering never fails.  For every symbol, mapped or not, and every *)
(* configured cell size, render_glyph completes without an error (no       *)
(* out-of-range pixel access) and returns a canvas of exactly              *)
(* cellWidth x cellHeight; a symbol that no category names gets the        *)
(* placeholder of the final branch.                                        *)
(***************************************************************************)
C14_RenderNeverFails ==
   call # <<>> =>
      /\ ~canvas.err
      /\ IsGrid(canvas, call.w, call.h)
      /\ call.unicode_cp \notin Categorised => Lit(canvas) = Lozenge(call.w, call.h)

\* An unmapped symbol that no category names, rendered in the largest cell;
\* a mapped triangle and an unmapped Braille pattern are among the symbols.
C14_Witness ==
   /\ Rendered(\h41)
   /\ \h41 \notin Mapped /\ \h41 \notin Categorised
   /\ \h25B2 \in Mapped /\ \h28FF \in Symbols \ Mapped
   /\ OtherSymbols \cap (Categorised \cup Mapped) = {}
   /\ call.w = 22 /\ call.h = 49
   /\ IsGrid(canvas, 22, 49)
   /\ Cardinality(Lit(canvas)) = 4

(***************************************************************************)
(* Successive calls of render_glyph, with the identity of the lists they   *)
(* allocate: heap[id] is the row list with identity id, and the pixels of  *)
(* a returned Bitmap are the identities of its rows                        *)
(***************************************************************************)

\* The number of successive calls followed.
MaxCalls == 3

\* The arguments tried: a line, the full block and an unnamed symbol, in
\* the two smallest cells.
CallSymbols == {\h2500, \h2588, \h41}

CallSizes == {1, 2}

CallsInit ==
   /\ NoEmit
   /\ NoGenerate
   /\ canvas = <<>>
   /\ call = <<>>
   /\ heap = <<>>
   /\ returned = <<>>

\* The heap after the rows with identities ids got the contents rows.
write_rows(hp, ids, rows) ==
   LET top == SetMax({Len(hp)} \cup {ids[y] : y \in DOMAIN ids})
   IN  [id \in 1..top |->
          IF \E y \in DOMAIN ids : ids[y] = id
          THEN rows[CHOOSE y \in DOMAIN ids : ids[y] = id]
          ELSE hp[id]]

\* bm = render_glyph(unicode_cp, w, h): Bitmap.__init__ allocates the rows,
\* the drawing calls write into them, and the Bitmap is returned.
call_render_glyph_again ==
   \E unicode_cp \in CallSymbols : \E k \in CallSizes :
      LET w == MONACO_METRICS[k][2]
          h == MONACO_METRICS[k][3]
          ids == new_rows(heap, h)
      IN  /\ Len(returned) < MaxCalls
          /\ heap' = write_rows(heap, ids, render_glyph(unicode_cp, w, h).pixels)
          /\ returned' = Append(returned, [unicode_cp |-> unicode_cp, w |-> w, h |-> h,
                                           pixels |-> ids])
          /\ UNCHANGED <<emit_vars, table_vars, canvas, call>>

CallsNext == call_render_glyph_again

CallsSpec == CallsInit /\ [][CallsNext]_vars

\* The grid a returned Bitmap shows now.
Grid(b) == [y \in 1..b.h |-> heap[b.pixels[y]]]

SameArguments(a, b) == a.unicode_cp = b.unicode_cp /\ a.w = b.w /\ a.h = b.h

IsBraille(cp) == \h2800 <= cp /\ cp <= \h28FF

\* Bit b of a pattern value.
Bit(p, b) == (p \div (2 ^ b)) % 2

\* The dot of bit b: its column (0 left, 1 right) and its row (0 top .. 3).
DotColumn(b) == IF b \in {0, 1, 2, 6} THEN 0 ELSE 1

DotRow(b) == IF b <= 2 THEN b ELSE IF b <= 5 THEN b - 3 ELSE 3

\* The centre of the dot of bit b in a w x h cell.
DotX(b, w) == IF DotColumn(b) = 0 THEN w \div 3 ELSE (2 * w) \div 3

DotY(b, h) == (h * (DotRow(b) + 1)) \div 5

(***************************************************************************)
(* C16: for every Braille pattern value p in 0..255 and every configured   *)
(* cell size, the pixel at the centre of the dot of bit b is lit if and    *)
(* only if bit b of p is set, where bits 0-2 are the left column from top  *)
(* to bottom, bits 3-5 the right column from top to bottom, bit 6 the      *)
(* bottom-left and bit 7 the bottom-right dot (columns at w//3 and 2w//3,  *)
(* rows at h(i+1)//5 for i = 0..3).  In particular p = 0x01 draws exactly  *)
(* one dot, a disc around (col_x[0], row_y[0]), and leaves the seven other *)
(* dot positions unfilled.                                                 *)
(***************************************************************************)
C16_BrailleDots ==
   (call # <<>> /\ IsBraille(call.unicode_cp)) =>
      LET p == call.unicode_cp - \h2800
          w == call.w
          h == call.h
          r == Max(1, Min(w, h) \div 8)
      IN  /\ \A b \in 0..7 :
                /\ 0 <= DotX(b, w) /\ DotX(b, w) < w
                /\ 0 <= DotY(b, h) /\ DotY(b, h) < h
                /\ Pixel(canvas, DotX(b, w), DotY(b, h)) = Bit(p, b)
          /\ p = 1 =>
                /\ Lit(canvas) =
                      {q \in range(0, w) \X range(0, h) :
                          ((q[1] - (w \div 3)) * (q[1] - (w \div 3)))
                             + ((q[2] - (h \div 5)) * (q[2] - (h \div 5))) <= r * r}
                /\ \A b \in 1..7 : <<DotX(b, w), DotY(b, h)>> \notin Lit(canvas)

\* Pattern 0x01 in the 7 x 17 cell: one dot of five pixels, centred at
\* (2, 3), and no other dot centre lit.
C16_Witness ==
   /\ call # <<>>
   /\ call.w = 7 /\ call.h = 17
   /\ call.unicode_cp = \h2801
   /\ <<2, 3>> \in Lit(canvas)
   /\ Cardinality(Lit(canvas)) = 5
   /\ {b \in 0..7 : Pixel(canvas, DotX(b, 7), DotY(b, 17)) = 1} = {0}

\* Whole rows and whole columns of a w x h cell.
Rows(ys, w) == range(0, w) \X ys

Columns(xs, h) == xs \X range(0, h)

(***************************************************************************)
(* C17: for every configured cell size (w, h), with cx = w//2 and          *)
(* cy = h//2: the single horizontal line lights exactly row cy over all w  *)
(* columns and no other pixel (row 8 in the 7 x 17 cell); the double       *)
(* horizontal line lights exactly rows cy-1 and cy+1; the heavy horizontal *)
(* line lights exactly the three adjacent rows cy-1, cy, cy+1; and the     *)
(* single, double and heavy vertical lines light exactly column cx,        *)
(* columns cx-1 and cx+1, and columns cx-1..cx+1, over the full height.    *)
(***************************************************************************)
C17_StraightLines ==
   call # <<>> =>
      LET w == call.w
          h == call.h
          cx == w \div 2
          cy == h \div 2
      IN  /\ Rendered(\h2500) => Lit(canvas) = Rows({cy}, w)
          /\ Rendered(\h2550) => Lit(canvas) = Rows({cy - 1, cy + 1}, w)
          /\ Rendered(\h2501) => Lit(canvas) = Rows({cy - 1, cy, cy + 1}, w)
          /\ Rendered(\h2502) => Lit(canvas) = Columns({cx}, h)
          /\ Rendered(\h2551) => Lit(canvas) = Columns({cx - 1, cx + 1}, h)
          /\ Rendered(\h2503) => Lit(canvas) = Columns({cx - 1, cx, cx + 1}, h)
          /\ (call.unicode_cp \in {\h2500, \h2550, \h2501, \h2502, \h2551, \h2503}) =>
                /\ 1 <= cx /\ cx + 1 < w
                /\ 1 <= cy /\ cy + 1 < h

\* The single horizontal line in the 7 x 17 cell: row 8 is fully set, every
\* other row is zero.
C17_Witness ==
   /\ Rendered(\h2500)
   /\ call.w = 7 /\ call.h = 17
   /\ \A y \in range(0, 17) : \A x \in range(0, 7) :
         Pixel(canvas, x, y) = IF y = 8 THEN 1 ELSE 0

\* The block elements that cover n eighths of the cell from one edge:
\* <<symbol, edge, n>>.
BlockEighths ==
   { <<\h2581, "lower", 1>>, <<\h2582, "lower", 2>>, <<\h2583, "lower", 3>>,
     <<\h2584, "lower", 4>>, <<\h2585, "lower", 5>>, <<\h2586, "lower", 6>>,
     <<\h2587, "lower", 7>>,
     <<\h258F, "left", 1>>, <<\h258E, "left", 2>>, <<\h258D, "left", 3>>,
     <<\h258C, "left", 4>>, <<\h258B, "left", 5>>, <<\h258A, "left", 6>>,
     <<\h2589, "left", 7>>,
     <<\h2594, "upper", 1>>, <<\h2580, "upper", 4>>,
     <<\h2595, "right", 1>>, <<\h2590, "right", 4>> }

\* The cell dimension an edge's thickness is measured along.
Along(edge, w, h) == IF edge \in {"lower", "upper"} THEN h ELSE w

\* The full-length rectangle of thickness t flush with an edge.
Flush(edge, t, w, h) ==
   CASE edge = "lower" -> Rows(range(h - t, h), w)
     [] edge = "upper" -> Rows(range(0, t), w)
     [] edge = "left" -> Columns(range(0, t), h)
     [] edge = "right" -> Columns(range(w - t, w), h)

\* max(1, cellDimension * n // 8)
EighthsThickness(dim, n) == Max(1, (dim * n) \div 8)

(***************************************************************************)
(* C18 as stated: every block element covering n eighths of the cell along *)
(* one axis, the lower, left, upper and right halves included, is a        *)
(* full-length rectangle flush with its edge of thickness exactly          *)
(* max(1, cellDimension * n // 8).                                         *)
(***************************************************************************)
C18_AsStated ==
   call # <<>> =>
      \A e \in BlockEighths :
         Rendered(e[1]) =>
            Lit(canvas) = Flush(e[2], EighthsThickness(Along(e[2], call.w, call.h), e[3]),
                                call.w, call.h)

\* The thickness the code gives: the lower and the right half are what the
\* upper and the left half leave of the cell.
BlockThickness(edge, n, dim) ==
   IF n = 4 /\ edge \in {"lower", "right"}
   THEN dim - (dim \div 2)
   ELSE EighthsThickness(dim, n)

(***************************************************************************)
(* C18: every block element covering n eighths of the cell along one axis  *)
(* is a full-length rectangle flush with its edge, at least one pixel      *)
(* thick at every configured size.  Its thickness is exactly               *)
(* max(1, cellDimension * n // 8), except for the lower half and the right *)
(* half, whose thickness is cellDimension - cellDimension // 2: the cell   *)
(* less the upper or left half, one pixel more than cellDimension * 4 // 8 *)
(* when the dimension is odd.                                              *)
(***************************************************************************)
C18_BlockThickness ==
   call # <<>> =>
      \A e \in BlockEighths :
         Rendered(e[1]) =>
            LET t == BlockThickness(e[2], e[3], Along(e[2], call.w, call.h))
            IN  /\ t >= 1
                /\ Lit(canvas) = Flush(e[2], t, call.w, call.h)

\* The lower half in the 7 x 17 cell: the nine rows 8..16, where
\* 17 * 4 // 8 is 8.
C18_Witness ==
   /\ Rendered(\h2584)
   /\ call.w = 7 /\ call.h = 17
   /\ Lit(canvas) = Rows(8..16, 7)
   /\ EighthsThickness(17, 4) = 8
   /\ \h258F \in Symbols /\ EighthsThickness(call.w, 1) = 1

(***************************************************************************)
(* C19: for every configured cell size, rendering the full-block symbol    *)
(* sets every pixel of the cellWidth x cellHeight canvas.                  *)
(***************************************************************************)
C19_FullBlock ==
   Rendered(\h2588) =>
      /\ IsGrid(canvas, call.w, call.h)
      /\ \A y \in range(0, call.h) : \A x \in range(0, call.w) : Pixel(canvas, x, y) = 1

\* The full block in the largest cell: all 22 * 49 pixels are set.
C19_Witness ==
   /\ Rendered(\h2588)
   /\ call.w = 22 /\ call.h = 49
   /\ Cardinality(Lit(canvas)) = 22 * 49

\* The symbols outside GLYPH_MAP whose identifier lies in the code range.
UnmappedInRange == CodeRangeSymbols \ Mapped

(***************************************************************************)
(* C20: an unmapped symbol inside the valid code range renders a fixed     *)
(* 4-point lozenge placeholder: exactly the four pixels (cx, 1),           *)
(* (cx-1, cy), (cx+1, cy), (cx, h-2) and nothing else.  So does every      *)
(* other symbol that no category names.  The placeholder is not the        *)
(* missing-glyph box, which is the full one-pixel rectangle outline of the *)
(* cell.                                                                   *)
(***************************************************************************)
C20_Placeholder ==
   (call # <<>> /\ call.unicode_cp \in UnmappedInRange \cup (Symbols \ Categorised)) =>
      LET w == call.w
          h == call.h
          cx == w \div 2
          cy == h \div 2
          box == Lit(missing_glyph(w, h))
      IN  /\ Lit(canvas) = {<<cx, 1>>, <<cx - 1, cy>>, <<cx + 1, cy>>, <<cx, h - 2>>}
          /\ Cardinality(Lit(canvas)) = 4
          /\ box = {p \in range(0, w) \X range(0, h) : BoxOutline(w, h, p[1], p[2]) = 1}
          /\ Lit(canvas) # box

\* The unmapped symbol 0x7E in the 6 x 12 cell: the pixels (3, 1), (2, 6),
\* (4, 6) and (3, 10), none of them on the outline of the cell.
C20_Witness ==
   /\ Rendered(\h7E)
   /\ \h7E \in UnmappedInRange
   /\ UnmappedInRange = CodeRangeSymbols
   /\ call.w = 6 /\ call.h = 12
   /\ Lit(canvas) = {<<3, 1>>, <<2, 6>>, <<4, 6>>, <<3, 10>>}
   /\ Lit(canvas) \cap Lit(missing_glyph(6, 12)) = {}

\* Densities on and between the thresholds of dither, in hundredths.
ShadeDensity == {25, 37, 49, 50, 62, 74, 75, 87, 100}

\* The three patterns in a w x h cell: the dot grid of the pixels whose x and
\* y are both even, the checkerboard of the pixels whose x + y is even, and
\* every pixel but those of the dot grid.
SparseDots(w, h) == {p \in range(0, w) \X range(0, h) : p[1] % 2 = 0 /\ p[2] % 2 = 0}

Checkerboard(w, h) == {p \in range(0, w) \X range(0, h) : (p[1] + p[2]) % 2 = 0}

AllButHoles(w, h) == (range(0, w) \X range(0, h)) \ SparseDots(w, h)

DitherPattern(density, w, h) ==
   IF density >= 75 THEN AllButHoles(w, h)
   ELSE IF density >= 50 THEN Checkerboard(w, h)
   ELSE SparseDots(w, h)

\* The density render_glyph passes for a shade symbol.
ShadeOf(cp) ==
   CASE cp = \h2591 -> 25
     [] cp = \h2592 -> 50
     [] cp = \h2593 -> 75

(***************************************************************************)
(* C21: on a blank canvas of any configured cell size, dither(density)     *)
(* lights exactly one of three fixed patterns, chosen by threshold: for    *)
(* density >= 0.75 every pixel except the holes at even x and even y, for  *)
(* 0.5 <= density < 0.75 the checkerboard of the pixels with x + y even,   *)
(* for 0.25 <= density < 0.5 the dot grid of the pixels with x and y both  *)
(* even.  The light, medium and dark shade symbols render as the patterns  *)
(* of 0.25, 0.5 and 0.75.                                                  *)
(***************************************************************************)
C21_DitherPatterns ==
   (call # <<>> /\ call.unicode_cp \in {\h2591, \h2592, \h2593}) =>
      LET w == call.w
          h == call.h
      IN  /\ \A density \in ShadeDensity :
                Lit(dither(Bitmap(w, h), density)) = DitherPattern(density, w, h)
          /\ Lit(canvas) = DitherPattern(ShadeOf(call.unicode_cp), w, h)
          /\ Lit(canvas) \in {SparseDots(w, h), Checkerboard(w, h), AllButHoles(w, h)}

\* The dark shade in the 7 x 17 cell: the 36 holes at even x and even y, the
\* other 83 pixels lit; the three patterns differ.
C21_Witness ==
   /\ Rendered(\h2593)
   /\ call.w = 7 /\ call.h = 17
   /\ Cardinality(Lit(canvas)) = 83
   /\ <<0, 0>> \notin Lit(canvas) /\ <<1, 0>> \in Lit(canvas) /\ <<1, 1>> \in Lit(canvas)
   /\ Lit(dither(Bitmap(7, 17), 74)) = Checkerboard(7, 17)
   /\ Cardinality(Checkerboard(7, 17)) = 60
   /\ Cardinality(SparseDots(7, 17)) = 36

\* The box-drawing symbols other than the dashed line.
BoxSymbols ==
   (box_single_cps \cup box_double_cps \cup box_mixed_cps \cup box_half_heavy_cps) \ {\h2504}

\* The sides of the cell a box-drawing symbol extends to, and with which kind
\* of line, after the name of the symbol: <<left, right, top, bottom>>.
Connection(cp) ==
   CASE cp = \h2500 -> <<"single", "single", "none", "none">>  \* light horizontal
     [] cp = \h2501 -> <<"heavy", "heavy", "none", "none">>  \* heavy horizontal
     [] cp = \h2502 -> <<"none", "none", "single", "single">>  \* light vertical
     [] cp = \h2503 -> <<"none", "none", "heavy", "heavy">>  \* heavy vertical
     [] cp = \h250C -> <<"none", "single", "none", "single">>  \* light down and right
     [] cp = \h2510 -> <<"single", "none", "none", "single">>  \* light down and left
     [] cp = \h2514 -> <<"none", "single", "single", "none">>  \* light up and right
     [] cp = \h2518 -> <<"single", "none", "single", "none">>  \* light up and left
     [] cp = \h251C -> <<"none", "single", "single", "single">>  \* light vertical and right
     [] cp = \h2524 -> <<"single", "none", "single", "single">>  \* light vertical and left
     [] cp = \h252C -> <<"single", "single", "none", "single">>  \* light down and horizontal
     [] cp = \h2534 -> <<"single", "single", "single", "none">>  \* light up and horizontal
     [] cp = \h253C -> <<"single", "single", "single", "single">>  \* light vertical and horizontal
     [] cp = \h254B -> <<"heavy", "heavy", "heavy", "heavy">>  \* heavy vertical and horizontal
     [] cp = \h2550 -> <<"double", "double", "none", "none">>  \* double horizontal
     [] cp = \h2551 -> <<"none", "none", "double", "double">>  \* double vertical
     [] cp = \h2552 -> <<"none", "double", "none", "single">>  \* down single and right double
     [] cp = \h2553 -> <<"none", "single", "none", "double">>  \* down double and right single
     [] cp = \h2554 -> <<"none", "double", "none", "double">>  \* double down and right
     [] cp = \h2555 -> <<"double", "none", "none", "single">>  \* down single and left double
     [] cp = \h2556 -> <<"single", "none", "none", "double">>  \* down double and left single
     [] cp = \h2557 -> <<"double", "none", "none", "double">>  \* double down and left
     [] cp = \h2558 -> <<"none", "double", "single", "none">>  \* up single and right double
     [] cp = \h2559 -> <<"none", "single", "double", "none">>  \* up double and right single
     [] cp = \h255A -> <<"none", "double", "double", "none">>  \* double up and right
     [] cp = \h255B -> <<"double", "none", "single", "none">>  \* up single and left double
     [] cp = \h255C -> <<"single", "none", "double", "none">>  \* up double and left single
     [] cp = \h255D -> <<"double", "none", "double", "none">>  \* double up and left
     [] cp = \h255E -> <<"none", "double", "single", "single">>  \* vertical single and right double
     [] cp = \h255F -> <<"none", "single", "double", "double">>  \* vertical double and right single
     [] cp = \h2560 -> <<"none", "double", "double", "double">>  \* double vertical and right
     [] cp = \h2561 -> <<"double", "none", "single", "single">>  \* vertical single and left double
     [] cp = \h2562 -> <<"single", "none", "double", "double">>  \* vertical double and left single
     [] cp = \h2563 -> <<"double", "none", "double", "double">>  \* double vertical and left
     [] cp = \h2564 -> <<"double", "double", "none", "single">>  \* down single and horizontal double
     [] cp = \h2565 -> <<"single", "single", "none", "double">>  \* down double and horizontal single
     [] cp = \h2566 -> <<"double", "double", "none", "double">>  \* double down and horizontal
     [] cp = \h2567 -> <<"double", "double", "single", "none">>  \* up single and horizontal double
     [] cp = \h2568 -> <<"single", "single", "double", "none">>  \* up double and horizontal single
     [] cp = \h2569 -> <<"double", "double", "double", "none">>  \* double up and horizontal
     [] cp = \h256A -> <<"double", "double", "single", "single">>  \* vertical single and horizontal double
     [] cp = \h256B -> <<"single", "single", "double", "double">>  \* vertical double and horizontal single
     [] cp = \h256C -> <<"double", "double", "double", "double">>  \* double vertical and horizontal
     [] cp = \h2574 -> <<"single", "none", "none", "none">>  \* light left
     [] cp = \h2575 -> <<"none", "none", "single", "none">>  \* light up
     [] cp = \h2576 -> <<"none", "single", "none", "none">>  \* light right
     [] cp = \h2577 -> <<"none", "none", "none", "single">>  \* light down

\* The lit pixels of a Bitmap on one border of its cell, by their position
\* along the border: rows for the left and right columns, columns for the
\* top and bottom rows.
Border(bm, side) ==
   CASE side = 1 -> {y \in range(0, bm.h) : Pixel(bm, 0, y) = 1}
     [] side = 2 -> {y \in range(0, bm.h) : Pixel(bm, bm.w - 1, y) = 1}
     [] side = 3 -> {x \in range(0, bm.w) : Pixel(bm, x, 0) = 1}
     [] side = 4 -> {x \in range(0, bm.w) : Pixel(bm, x, bm.h - 1) = 1}

\* The centre line a connection on a side is drawn about.
CentreOf(side, w, h) == IF side \in {1, 2} THEN h \div 2 ELSE w \div 2

\* The border pixels of a connection about centre c.
ConnectionPixels(kind, c) ==
   CASE kind = "none" -> {}
     [] kind = "single" -> {c}
     [] kind = "double" -> {c - 1, c + 1}
     [] kind = "heavy" -> {c - 1, c, c + 1}

\* The side of the neighbouring cell that touches a side of this one.
Opposite(side) == <<2, 1, 4, 3>>[side]

(***************************************************************************)
(* C22: for every box-drawing symbol (single, double, mixed single and     *)
(* double, half-line and heavy, the dashed line excluded) and every        *)
(* configured size, the lit pixels on each of the four borders of the cell *)
(* (column 0, column w-1, row 0, row h-1) are exactly those of the         *)
(* connection of the symbol on that side: none if it does not extend to    *)
(* the side, the centre pixel for a single connection, the pixels at       *)
(* centre-1 and centre+1 for a double one, the pixels centre-1..centre+1   *)
(* for a heavy one.  So a symbol and a neighbour whose connection on the   *)
(* touching side is of the same kind light the same positions there.       *)
(***************************************************************************)
C22_BordersMatchConnections ==
   (call # <<>> /\ call.unicode_cp \in BoxSymbols) =>
      LET w == call.w
          h == call.h
      IN  /\ \A side \in 1..4 :
                Border(canvas, side) =
                   ConnectionPixels(Connection(call.unicode_cp)[side], CentreOf(side, w, h))
          /\ \A side \in {2, 4} : \A other \in BoxSymbols :
                Connection(other)[Opposite(side)] = Connection(call.unicode_cp)[side] =>
                   Border(render_glyph(other, w, h), Opposite(side)) = Border(canvas, side)

\* Down single and right double in the 7 x 17 cell: rows 7 and 9 of the right
\* column, column 3 of the bottom row, nothing on the left or on top.
C22_Witness ==
   /\ Rendered(\h2552)
   /\ call.w = 7 /\ call.h = 17
   /\ Border(canvas, 1) = {}
   /\ Border(canvas, 2) = {7, 9}
   /\ Border(canvas, 3) = {}
   /\ Border(canvas, 4) = {3}
   /\ Border(render_glyph(\h2550, 7, 17), 1) = {7, 9}
   /\ Cardinality(BoxSymbols) = 47

\* The edges of the triangle a: from vertex k to the next one.
EdgeFrom(a, k) == a[k]

EdgeTo(a, k) == a[(k % 3) + 1]

\* The edges whose intersection with row y is collected: not horizontal, and
\* y within the rows the edge spans.
Collected(a, y) ==
   {k \in 1..3 :
      /\ EdgeFrom(a, k)[2] # EdgeTo(a, k)[2]
      /\ \/ EdgeFrom(a, k)[2] <= y /\ y <= EdgeTo(a, k)[2]
         \/ EdgeTo(a, k)[2] <= y /\ y <= EdgeFrom(a, k)[2]}

\* The x at which edge k meets row y, as a fraction <<numerator, denominator>>
\* with a positive denominator.
Intersection(a, k, y) ==
   LET p == EdgeFrom(a, k)
       q == EdgeTo(a, k)
       dy == q[2] - p[2]
       n == (p[1] * dy) + ((y - p[2]) * (q[1] - p[1]))
   IN  IF dy > 0 THEN <<n, dy>> ELSE <<0 - n, 0 - dy>>

FractionLeq(r, s) == r[1] * s[2] <= s[1] * r[2]

\* The integer a fraction truncates to: the one next to it on the side of 0.
Trunc(r, candidates) ==
   CHOOSE t \in candidates :
      IF r[1] >= 0
      THEN t * r[2] <= r[1] /\ r[1] < (t + 1) * r[2]
      ELSE (t - 1) * r[2] < r[1] /\ r[1] <= t * r[2]

\* The columns of row y that the triangle a lights on a canvas w wide.
TriangleSpan(a, y, w) ==
   LET xs == {a[k][1] : k \in 1..3}
       ys == {a[k][2] : k \in 1..3}
       candidates == SetMin(xs)..SetMax(xs)
       collected == {Intersection(a, k, y) : k \in Collected(a, y)}
       least == CHOOSE r \in collected : \A s \in collected : FractionLeq(r, s)
       greatest == CHOOSE r \in collected : \A s \in collected : FractionLeq(s, r)
   IN  IF /\ \E v \in ys : v <= y
          /\ \E v \in ys : y <= v
          /\ Cardinality(Collected(a, y)) >= 2
       THEN {x \in range(0, w) : Trunc(least, candidates) <= x /\ x <= Trunc(greatest, candidates)}
       ELSE {}

\* The lit columns of row y of a Bitmap.
LitInRow(bm, y) == {x \in range(0, bm.w) : Pixel(bm, x, y) = 1}

(***************************************************************************)
(* C23: fill_triangle, for each row y of the canvas between the smallest   *)
(* and the largest vertex y, collects the x at which row y meets each of   *)
(* the three edges that is not horizontal and whose rows contain y; if at  *)
(* least two were collected it lights exactly the pixels of that row from  *)
(* trunc(smallest x) to trunc(largest x) inclusive, clipped to the canvas. *)
(* Rows with fewer than two intersections and rows outside the vertex rows *)
(* are left as they were.                                                  *)
(***************************************************************************)
C23_FillTriangle ==
   (call # <<>> /\ call.op = "fill_triangle") =>
      /\ ~canvas.err
      /\ \A y \in range(0, CanvasH) :
            LitInRow(canvas, y) =
               LitInRow(call.before, y) \cup TriangleSpan(call.args, y, CanvasW)

\* A triangle left of the canvas on a blank canvas: in row 0 its edges are
\* met at x = -1 and x = -1/2, which truncate to -1 and 0, so pixel (0, 0) is
\* lit; in row 1 they are met at -1 and 0.
C23_Witness ==
   /\ call # <<>>
   /\ call.op = "fill_triangle"
   /\ call.args = <<<<0 - Beyond, 0 - Beyond>>, <<0 - Beyond, CanvasH + Beyond>>,
                    <<CanvasW \div 2, CanvasH + Beyond>>>>
   /\ Lit(call.before) = {}
   /\ Cardinality(Collected(call.args, 0)) = 2
   /\ TriangleSpan(call.args, 0, CanvasW) = {0}
   /\ <<0, 0>> \in Lit(canvas)

\* The values of an unsigned 16-bit word.
Word16 == 0..65535

(***************************************************************************)
(* C24: for every configured size, every value written as a 16-bit word    *)
(* fits in 16 bits: owTLoc, rowWords, the other header words, every        *)
(* location-table entry (the largest is (numChars + 1) * cellWidth) and    *)
(* every offset/width entry are in [0, 65535].  So masking with 0xFFFF     *)
(* changes nothing, every word is printed as exactly four hex digits, and  *)
(* the printed record is as long as its words and strike rows add up to.   *)
(***************************************************************************)
C24_WordsFit ==
   NfntPrinted =>
      LET m == Printed
          hw == header_words(data, m[2], m[3], m[4], m[5], m[6])
      IN  /\ data.owTLoc \in Word16 /\ data.owTLoc % 65536 = data.owTLoc
          /\ data.row_words \in Word16
          /\ \A k \in 1..Len(hw) :
                /\ hw[k] \in Word16
                /\ Len(format_X(hw[k] % 65536, 4)) = 4
          /\ hw[9] = data.owTLoc /\ hw[13] = data.row_words
          /\ \A k \in 1..Len(data.loc_table) :
                /\ data.loc_table[k] \in Word16
                /\ data.loc_table[k] <= (num_chars + 1) * m[2]
                /\ Len(format_X(data.loc_table[k], 4)) = 4
          /\ data.loc_table[Len(data.loc_table)] = (num_chars + 1) * m[2]
          /\ \A k \in 1..Len(data.ow_table) :
                /\ data.ow_table[k] \in Word16
                /\ Len(format_X(data.ow_table[k] % 65536, 4)) = 4
          /\ Len(header_hex(data, m[2], m[3], m[4], m[5], m[6])) = 4 * 13
          /\ Len(loc_hex(data)) = 4 * Len(data.loc_table)
          /\ Len(ow_hex(data)) = 4 * Len(data.ow_table)
          /\ Len(LastNfntHex) =
                (4 * 13) + TotalLen(data.strike_hex, Len(data.strike_hex))
                   + (4 * Len(data.loc_table)) + (4 * Len(data.ow_table))

\* The 36pt record, the largest: 197 words per strike row, owTLoc 9802, the
\* last location entry 143 * 22 = 3146, all far below 65536.
C24_Witness ==
   /\ NfntPrinted /\ i = Len(MONACO_METRICS)
   /\ Printed[2] = 22 /\ Printed[3] = 49
   /\ data.row_words = 197
   /\ data.owTLoc = 9802
   /\ data.loc_table[Len(data.loc_table)] = 3146
   /\ Len(data.loc_table) = 144

(***************************************************************************)
(* C25: every symbol of the repertoire table is matched by a rule of       *)
(* render_glyph of its own: at every configured cell size, rendering a     *)
(* mapped symbol does not reach the final placeholder branch, so the       *)
(* canvas is not the placeholder's.                                        *)
(***************************************************************************)
C25_MappedSymbolsHaveRules ==
   (call # <<>> /\ call.unicode_cp \in Mapped) =>
      LET w == call.w
          h == call.h
      IN  /\ call.unicode_cp \in Categorised
          /\ ~canvas.err
          /\ Lit(canvas) # {}
          /\ Lit(canvas) # Lit(unknown_glyph(Bitmap(w, h), h, w \div 2, h \div 2))

\* The heavy right-pointing angle, the only symbol of its arm, in the 6 x 12
\* cell: a chevron of more than the placeholder's four pixels.
C25_Witness ==
   /\ Rendered(\h276F)
   /\ \h276F \in Mapped
   /\ call.w = 6 /\ call.h = 12
   /\ Cardinality(Lit(canvas)) > 4
   /\ Cardinality(Mapped) = 141
   /\ Mapped \subseteq Symbols

\* The double-line corners: down-right, down-left, up-right, up-left.
DoubleCorners == {\h2554, \h2557, \h255A, \h255D}

\* Two different pixels that touch, by a side or by a corner.
Adjacent8(p, q) ==
   /\ p # q
   /\ abs(p[1] - q[1]) <= 1
   /\ abs(p[2] - q[2]) <= 1

\* The pixels of lit connected to those of S through 8-adjacent lit pixels.
RECURSIVE Grow(_, _)
Grow(S, lit) ==
   LET more == {q \in lit \ S : \E p \in S : Adjacent8(p, q)}
   IN  IF more = {} THEN S ELSE Grow(S \cup more, lit)

\* The number of 8-connected components of a set of pixels.
RECURSIVE Components(_)
Components(lit) ==
   IF lit = {} THEN 0
   ELSE 1 + Components(lit \ Grow({CHOOSE p \in lit : TRUE}, lit))

\* The two strokes of a double corner in a w x h cell: the outer L through
\* the far line of each arm, the inner L through the near one.  right and
\* down tell the sides of the cell the arms go to.
CornerStroke(w, h, right, down, outer) ==
   LET cx == w \div 2
       cy == h \div 2
       off == IF outer THEN 1 ELSE -1
       col == IF right THEN cx - off ELSE cx + off
       row == IF down THEN cy - off ELSE cy + off
       xs == IF right THEN col..(w - 1) ELSE 0..col
       ys == IF down THEN row..(h - 1) ELSE 0..row
   IN  (xs \X {row}) \cup ({col} \X ys)

GoesRight(cp) == cp \in {\h2554, \h255A}

GoesDown(cp) == cp \in {\h2554, \h2557}

(***************************************************************************)
(* C26: in each double-line corner symbol (double down-right, down-left,   *)
(* up-right, up-left) at every configured size, the two parallel strokes   *)
(* stay separate: the lit pixels are an outer L-shaped stroke and an inner *)
(* L-shaped stroke that share no pixel and have no pair of 8-adjacent      *)
(* pixels between them, that is, exactly two connected components.         *)
(***************************************************************************)
C26_AsStated ==
   (call # <<>> /\ call.unicode_cp \in DoubleCorners) =>
      LET cp == call.unicode_cp
          outer == CornerStroke(call.w, call.h, GoesRight(cp), GoesDown(cp), TRUE)
          inner == CornerStroke(call.w, call.h, GoesRight(cp), GoesDown(cp), FALSE)
      IN  /\ Lit(canvas) = outer \cup inner
          /\ outer \cap inner = {}
          /\ \A p \in outer : \A q \in inner : ~Adjacent8(p, q)
          /\ Components(Lit(canvas)) = 2

\* What render_glyph draws for a double corner: each vertical stroke starts
\* at the row of the far horizontal stroke and each horizontal stroke at
\* the column of the far vertical one, so the strokes cross at one pixel
\* and the symbol is a single connected component.
C26_StrokesCross ==
   (call # <<>> /\ call.unicode_cp \in DoubleCorners) =>
      LET cp == call.unicode_cp
          cx == call.w \div 2
          cy == call.h \div 2
          crossing == <<IF GoesRight(cp) THEN cx + 1 ELSE cx - 1,
                        IF GoesDown(cp) THEN cy + 1 ELSE cy - 1>>
      IN  /\ crossing \in Lit(canvas)
          /\ Components(Lit(canvas)) = 1

\* Double down-right in the 7 x 17 cell: the strokes cross at (4, 9).
C26_Witness ==
   /\ Rendered(\h2554)
   /\ call.w = 7 /\ call.h = 17
   /\ <<4, 9>> \in Lit(canvas)
   /\ <<4, 7>> \in Lit(canvas) /\ <<2, 9>> \in Lit(canvas)
   /\ <<2, 7>> \notin Lit(canvas)
   /\ Components(Lit(canvas)) = 1

\* The four single-quadrant symbols: lower left, lower right, upper left,
\* upper right.
SingleQuadrants == {\h2596, \h2597, \h2598, \h259D}

\* The single quadrants a multi-quadrant symbol names.
QuadrantsNamed(cp) ==
   CASE cp = \h2599 -> {\h2598, \h2596, \h2597}  \* upper left, lower left, lower right
     [] cp = \h259A -> {\h2598, \h2597}          \* upper left, lower right
     [] cp = \h259B -> {\h2598, \h259D, \h2596}  \* upper left, upper right, lower left
     [] cp = \h259C -> {\h2598, \h259D, \h2597}  \* upper left, upper right, lower right
     [] cp = \h259E -> {\h259D, \h2596}          \* upper right, lower left
     [] cp = \h259F -> {\h259D, \h2596, \h2597}  \* upper right, lower left, lower right

MultiQuadrants == {\h2599, \h259A, \h259B, \h259C, \h259E, \h259F}

\* The other half of a half block.
OtherHalf(cp) ==
   CASE cp = \h2580 -> \h2584
     [] cp = \h2584 -> \h2580
     [] cp = \h258C -> \h2590
     [] cp = \h2590 -> \h258C

HalfBlocks == {\h2580, \h2584, \h258C, \h2590}

\* Every pixel of a w x h cell.
Cell(w, h) == range(0, w) \X range(0, h)

\* The pixels render_glyph lights for symbol cp in a w x h cell.
Glyph(cp, w, h) == Lit(render_glyph(cp, w, h))

(***************************************************************************)
(* C27: at every configured size the half and quadrant blocks tile the     *)
(* cell exactly.  Upper half and lower half are disjoint and their union   *)
(* is the whole cell; so are left half and right half; the four            *)
(* single-quadrant symbols are pairwise disjoint and their union is the    *)
(* whole cell; and every multi-quadrant symbol is the union of the         *)
(* single-quadrant symbols it names.                                       *)
(***************************************************************************)
C27_BlocksTile ==
   call # <<>> =>
      LET cp == call.unicode_cp
          w == call.w
          h == call.h
      IN  /\ cp \in HalfBlocks =>
                /\ Lit(canvas) \cap Glyph(OtherHalf(cp), w, h) = {}
                /\ Lit(canvas) \cup Glyph(OtherHalf(cp), w, h) = Cell(w, h)
          /\ cp \in SingleQuadrants =>
                /\ \A q \in SingleQuadrants \ {cp} : Lit(canvas) \cap Glyph(q, w, h) = {}
                /\ Lit(canvas) \cup UNION {Glyph(q, w, h) : q \in SingleQuadrants \ {cp}}
                      = Cell(w, h)
          /\ cp \in MultiQuadrants =>
                Lit(canvas) = UNION {Glyph(q, w, h) : q \in QuadrantsNamed(cp)}

\* Upper left and lower right in the 7 x 17 cell: 3 x 8 pixels of the upper
\* left quadrant and 4 x 9 of the lower right one; the upper half is 7 x 8.
C27_Witness ==
   /\ Rendered(\h259A)
   /\ call.w = 7 /\ call.h = 17
   /\ Lit(canvas) = (range(0, 3) \X range(0, 8)) \cup (range(3, 7) \X range(8, 17))
   /\ Cardinality(Lit(canvas)) = 60
   /\ Cardinality(Glyph(\h2580, 7, 17)) = 56
   /\ Cardinality(Glyph(\h2584, 7, 17)) = 63
   /\ (HalfBlocks \cup SingleQuadrants \cup MultiQuadrants) \subseteq Symbols

\* The call c made again, on the Bitmap bm.
Again(c, bm) ==
   LET a == c.args
   IN  CASE c.op = "set" -> set(bm, a[1], a[2])
         [] c.op = "fill_rect" -> fill_rect(bm, a[1], a[2], a[3], a[4])
         [] c.op = "hline" -> hline(bm, a[1], a[2], a[3])
         [] c.op = "vline" -> vline(bm, a[1], a[2], a[3])
         [] c.op = "dither" -> dither(bm, a[1])
         [] c.op = "fill_circle" -> fill_circle(bm, a[1], a[2], a[3])
         [] c.op = "outline_circle" -> outline_circle(bm, a[1], a[2], a[3])
         [] c.op = "fill_triangle" -> fill_triangle(bm, a)

(***************************************************************************)
(* C28: the drawing operations only turn pixels on.  For any sequence of   *)
(* set, fill_rect, hline, vline, dither, fill_circle, outline_circle and   *)
(* fill_triangle calls with any arguments, every pixel lit before a call   *)
(* is still lit after it, and the pixels lit after it are those lit before *)
(* together with those the same call lights on a blank canvas: the result  *)
(* of a sequence is the union of the results of its operations, whatever   *)
(* their order.                                                            *)
(***************************************************************************)
C28_OnlyTurnsOn ==
   call # <<>> =>
      /\ Lit(call.before) \subseteq Lit(canvas)
      /\ Lit(canvas) =
            Lit(call.before) \cup Lit(Again(call, Bitmap(CanvasW, CanvasH)))

\* The medium dither over a canvas whose only lit pixel, (1, 0), is not of
\* the checkerboard: the pixel stays lit beside the three of the pattern.
C28_Witness ==
   /\ call # <<>>
   /\ call.op = "dither" /\ call.args = <<50>>
   /\ Lit(call.before) = {<<1, 0>>}
   /\ <<1, 0>> \notin Lit(Again(call, Bitmap(CanvasW, CanvasH)))
   /\ Lit(canvas) = {<<0, 0>>, <<1, 0>>, <<2, 0>>, <<1, 1>>}

\* The dash segments of row y of a Bitmap: the maximal runs of lit pixels,
\* each named by its first column.
Dashes(bm, y) == {x \in LitInRow(bm, y) : (x - 1) \notin LitInRow(bm, y)}

(***************************************************************************)
(* C29: the triple-dash horizontal symbol consists, at every configured    *)
(* size, of exactly three dash segments on the centre row cy, separated by *)
(* unlit gaps, and lights no pixel outside row cy.                         *)
(***************************************************************************)
C29_AsStated ==
   Rendered(\h2504) =>
      LET cy == call.h \div 2
      IN  /\ \A p \in Lit(canvas) : p[2] = cy
          /\ Cardinality(Dashes(canvas, cy)) = 3

\* What render_glyph draws for the triple dash: dashes of seg = max(1, w // 5)
\* pixels starting at every multiple of 2 * seg below w, on row cy only; that
\* is three dashes only while w <= 6 * seg.
C29_DashesDrawn ==
   Rendered(\h2504) =>
      LET w == call.w
          cy == call.h \div 2
          seg == Max(1, w \div 5)
      IN  /\ \A p \in Lit(canvas) : p[2] = cy
          /\ Dashes(canvas, cy) = {x \in range(0, w) : x % (2 * seg) = 0}
          /\ Cardinality(Dashes(canvas, cy)) = (w + (2 * seg) - 1) \div (2 * seg)
          /\ Cardinality(Dashes(canvas, cy)) \in {3, 4}
          /\ Cardinality(Dashes(canvas, cy)) = 3 <=> w <= 6 * seg

\* The triple dash in the 7 x 17 cell: four dashes of one pixel, at columns
\* 0, 2, 4 and 6 of row 8.
C29_Witness ==
   /\ Rendered(\h2504)
   /\ call.w = 7 /\ call.h = 17
   /\ Lit(canvas) = {<<0, 8>>, <<2, 8>>, <<4, 8>>, <<6, 8>>}
   /\ Cardinality(Dashes(canvas, 8)) = 4

(***************************************************************************)
(* generate_unicode_table.py: the Unicode to Mac Roman table               *)
(***************************************************************************)

\* The dict literal, as written: <<Mac Roman byte, Unicode codepoint>> in
\* source order.
MAC_ROMAN_TO_UNICODE ==
   <<
      <<\h80, \h00C4>>, <<\h81, \h00C5>>, <<\h82, \h00C7>>, <<\h83, \h00C9>>,
      <<\h84, \h00D1>>, <<\h85, \h00D6>>, <<\h86, \h00DC>>, <<\h87, \h00E1>>,
      <<\h88, \h00E0>>, <<\h89, \h00E2>>, <<\h8A, \h00E4>>, <<\h8B, \h00E3>>,
      <<\h8C, \h00E5>>, <<\h8D, \h00E7>>, <<\h8E, \h00E9>>, <<\h8F, \h00E8>>,
      <<\h90, \h00EA>>, <<\h91, \h00EB>>, <<\h92, \h00ED>>, <<\h93, \h00EC>>,
      <<\h94, \h00EE>>, <<\h95, \h00EF>>, <<\h96, \h00F1>>, <<\h97, \h00F3>>,
      <<\h98, \h00F2>>, <<\h99, \h00F4>>, <<\h9A, \h00F6>>, <<\h9B, \h00F5>>,
      <<\h9C, \h00FA>>, <<\h9D, \h00F9>>, <<\h9E, \h00FB>>, <<\h9F, \h00FC>>,
      <<\hA0, \h2020>>, <<\hA1, \h00B0>>, <<\hA2, \h00A2>>, <<\hA3, \h00A3>>,
      <<\hA4, \h00A7>>, <<\hA5, \h2022>>, <<\hA6, \h00B6>>, <<\hA7, \h00DF>>,
      <<\hA8, \h00AE>>, <<\hA9, \h00A9>>, <<\hAA, \h2122>>, <<\hAB, \h00B4>>,
      <<\hAC, \h00A8>>, <<\hAD, \h2260>>, <<\hAE, \h00C6>>, <<\hAF, \h00D8>>,
      <<\hB0, \h221E>>, <<\hB1, \h00B1>>, <<\hB2, \h2264>>, <<\hB3, \h2265>>,
      <<\hB4, \h00A5>>, <<\hB5, \h00B5>>, <<\hB6, \h2202>>, <<\hB7, \h2211>>,
      <<\hB8, \h220F>>, <<\hB9, \h03C0>>, <<\hBA, \h222B>>, <<\hBB, \h00AA>>,
      <<\hBC, \h00BA>>, <<\hBD, \h2126>>, <<\hBE, \h00E6>>, <<\hBF, \h00F8>>,
      <<\hC0, \h00BF>>, <<\hC1, \h00A1>>, <<\hC2, \h00AC>>, <<\hC3, \h221A>>,
      <<\hC4, \h0192>>, <<\hC5, \h2248>>, <<\hC6, \h2206>>, <<\hC7, \h00AB>>,
      <<\hC8, \h00BB>>, <<\hC9, \h2026>>, <<\hCA, \h00A0>>, <<\hCB, \h00C0>>,
      <<\hCC, \h00C3>>, <<\hCD, \h00D5>>, <<\hCE, \h0152>>, <<\hCF, \h0153>>,
      <<\hD0, \h2013>>, <<\hD1, \h2014>>, <<\hD2, \h201C>>, <<\hD3, \h201D>>,
      <<\hD4, \h2018>>, <<\hD5, \h2019>>, <<\hD6, \h00F7>>, <<\hD7, \h25CA>>,
      <<\hD8, \h00FF>>, <<\hD9, \h0178>>, <<\hDA, \h2044>>, <<\hDB, \h20AC>>,
      <<\hDC, \h2039>>, <<\hDD, \h203A>>, <<\hDE, \hFB01>>, <<\hDF, \hFB02>>,
      <<\hE0, \h2021>>, <<\hE1, \h00B7>>, <<\hE2, \h201A>>, <<\hE3, \h201E>>,
      <<\hE4, \h2030>>, <<\hE5, \h00C2>>, <<\hE6, \h00CA>>, <<\hE7, \h00C1>>,
      <<\hE8, \h00CB>>, <<\hE9, \h00C8>>, <<\hEA, \h00CD>>, <<\hEB, \h00CE>>,
      <<\hEC, \h00CF>>, <<\hED, \h00CC>>, <<\hEE, \h00D3>>, <<\hEF, \h00D4>>,
      <<\hF0, \hF8FF>>, <<\hF1, \h00D2>>, <<\hF2, \h00DA>>, <<\hF3, \h00DB>>,
      <<\hF4, \h00D9>>, <<\hF5, \h0131>>, <<\hF6, \h02C6>>, <<\hF7, \h02DC>>,
      <<\hF8, \h00AF>>, <<\hF9, \h02D8>>, <<\hFA, \h02D9>>, <<\hFB, \h02DA>>,
      <<\hFC, \h00B8>>, <<\hFD, \h02DD>>, <<\hFE, \h02DB>>, <<\hFF, \h02C7>>
   >>

\* The dict literal, as written: <<Unicode codepoint, byte>> in source order.
ASCII_APPROX_literal ==
   <<
      <<\h00B2, \h32>>, <<\h00B3, \h33>>, <<\h00B9, \h31>>, <<\h2070, \h30>>,
      <<\h2074, \h34>>, <<\h2075, \h35>>, <<\h2076, \h36>>, <<\h2077, \h37>>,
      <<\h2078, \h38>>, <<\h2079, \h39>>, <<\h0100, \h41>>, <<\h0101, \h61>>,
      <<\h0102, \h41>>, <<\h0103, \h61>>, <<\h0104, \h41>>, <<\h0105, \h61>>,
      <<\h0106, \h43>>, <<\h0107, \h63>>, <<\h0108, \h43>>, <<\h0109, \h63>>,
      <<\h010A, \h43>>, <<\h010B, \h63>>, <<\h010C, \h43>>, <<\h010D, \h63>>,
      <<\h010E, \h44>>, <<\h010F, \h64>>, <<\h0110, \h44>>, <<\h0111, \h64>>,
      <<\h0112, \h45>>, <<\h0113, \h65>>, <<\h0116, \h45>>, <<\h0117, \h65>>,
      <<\h0118, \h45>>, <<\h0119, \h65>>, <<\h011A, \h45>>, <<\h011B, \h65>>,
      <<\h011C, \h47>>, <<\h011D, \h67>>, <<\h011E, \h47>>, <<\h011F, \h67>>,
      <<\h0120, \h47>>, <<\h0121, \h67>>, <<\h0122, \h47>>, <<\h0123, \h67>>,
      <<\h0124, \h48>>, <<\h0125, \h68>>, <<\h0126, \h48>>, <<\h0127, \h68>>,
      <<\h0128, \h49>>, <<\h0129, \h69>>, <<\h012A, \h49>>, <<\h012B, \h69>>,
      <<\h012E, \h49>>, <<\h012F, \h69>>, <<\h0130, \h49>>, <<\h0134, \h4A>>,
      <<\h0135, \h6A>>, <<\h0136, \h4B>>, <<\h0137, \h6B>>, <<\h0139, \h4C>>,
      <<\h013A, \h6C>>, <<\h013B, \h4C>>, <<\h013C, \h6C>>, <<\h013D, \h4C>>,
      <<\h013E, \h6C>>, <<\h0141, \h4C>>, <<\h0142, \h6C>>, <<\h0143, \h4E>>,
      <<\h0144, \h6E>>, <<\h0145, \h4E>>, <<\h0146, \h6E>>, <<\h0147, \h4E>>,
      <<\h0148, \h6E>>, <<\h0150, \h4F>>, <<\h0151, \h6F>>, <<\h0154, \h52>>,
      <<\h0155, \h72>>, <<\h0156, \h52>>, <<\h0157, \h72>>, <<\h0158, \h52>>,
      <<\h0159, \h72>>, <<\h015A, \h53>>, <<\h015B, \h73>>, <<\h015C, \h53>>,
      <<\h015D, \h73>>, <<\h015E, \h53>>, <<\h015F, \h73>>, <<\h0160, \h53>>,
      <<\h0161, \h73>>, <<\h0162, \h54>>, <<\h0163, \h74>>, <<\h0164, \h54>>,
      <<\h0165, \h74>>, <<\h0168, \h55>>, <<\h0169, \h75>>, <<\h016A, \h55>>,
      <<\h016B, \h75>>, <<\h016C, \h55>>, <<\h016D, \h75>>, <<\h016E, \h55>>,
      <<\h016F, \h75>>, <<\h0170, \h55>>, <<\h0171, \h75>>, <<\h0172, \h55>>,
      <<\h0173, \h75>>, <<\h0174, \h57>>, <<\h0175, \h77>>, <<\h0176, \h59>>,
      <<\h0177, \h79>>, <<\h0179, \h5A>>, <<\h017A, \h7A>>, <<\h017B, \h5A>>,
      <<\h017C, \h7A>>, <<\h017D, \h5A>>, <<\h017E, \h7A>>, <<\h2010, \h2D>>,
      <<\h2011, \h2D>>, <<\h2012, \h2D>>, <<\h2015, \hD1>>, <<\h2024, \hE1>>,
      <<\h2027, \hE1>>, <<\h2032, \h27>>, <<\h2033, \h22>>, <<\h2016, \h7C>>,
      <<\h2043, \h2D>>, <<\h2212, \h2D>>, <<\h2219, \hE1>>, <<\h2261, \h3D>>,
      <<\h2080, \h30>>, <<\h2081, \h31>>, <<\h2082, \h32>>, <<\h2083, \h33>>,
      <<\h2084, \h34>>, <<\h2085, \h35>>, <<\h2086, \h36>>, <<\h2087, \h37>>,
      <<\h2088, \h38>>, <<\h2089, \h39>>, <<\h21D0, \h3C>>, <<\h21D2, \h3E>>,
      <<\h21D4, \h3D>>, <<\h0391, \h41>>, <<\h0392, \h42>>, <<\h0393, \h47>>,
      <<\h0394, \hC6>>, <<\h0395, \h45>>, <<\h0396, \h5A>>, <<\h0397, \h48>>,
      <<\h0398, \h4F>>, <<\h0399, \h49>>, <<\h039A, \h4B>>, <<\h039B, \h4C>>,
      <<\h039C, \h4D>>, <<\h039D, \h4E>>, <<\h039E, \h58>>, <<\h039F, \h4F>>,
      <<\h03A0, \h50>>, <<\h03A1, \h52>>, <<\h03A3, \h53>>, <<\h03A4, \h54>>,
      <<\h03A5, \h59>>, <<\h03A6, \h46>>, <<\h03A7, \h58>>, <<\h03A8, \h59>>,
      <<\h03A9, \hBD>>, <<\h03B1, \h61>>, <<\h03B2, \h62>>, <<\h03B3, \h67>>,
      <<\h03B4, \h64>>, <<\h03B5, \h65>>, <<\h03B6, \h7A>>, <<\h03B7, \h68>>,
      <<\h03B8, \h6F>>, <<\h03B9, \h69>>, <<\h03BA, \h6B>>, <<\h03BB, \h6C>>,
      <<\h03BC, \hB5>>, <<\h03BD, \h6E>>, <<\h03BE, \h78>>, <<\h03BF, \h6F>>,
      <<\h03C1, \h72>>, <<\h03C2, \h73>>, <<\h03C3, \h73>>, <<\h03C4, \h74>>,
      <<\h03C5, \h75>>, <<\h03C6, \h66>>, <<\h03C7, \h78>>, <<\h03C8, \h79>>,
      <<\h03C9, \h77>>
   >>

\* The dict literal of generate (lines 306-317), as written:
\* <<Unicode codepoint, byte>>.
latin1_ascii ==
   <<
      <<\h00A0, \h20>>, <<\h00AD, \h2D>>, <<\h00BC, \h20>>, <<\h00BD, \h20>>,
      <<\h00BE, \h20>>, <<\h00D0, \h44>>, <<\h00D7, \h78>>, <<\h00DE, \h54>>,
      <<\h00F0, \h64>>, <<\h00FE, \h74>>
   >>

LOZENGE == \hD7

\* The items of a dict built from the pairs lit, in iteration order: a key
\* keeps the position of its first occurrence and the value of its last one.
dict_items(lit) ==
   LET n == Len(lit)
       first == {k \in 1..n : \A j \in 1..(k - 1) : lit[j][1] # lit[k][1]}
       lastOf(k) == CHOOSE j \in k..n :
                       /\ lit[j][1] = lit[k][1]
                       /\ \A m \in (j + 1)..n : lit[m][1] # lit[k][1]
       at(r) == CHOOSE k \in first : Cardinality({j \in first : j <= k}) = r
   IN  [r \in 1..Cardinality(first) |-> <<lit[at(r)][1], lit[lastOf(at(r))][2]>>]

\* Lines 146-148: UNICODE_TO_MAC_ROMAN[ucp] = mr_byte for every item of
\* MAC_ROMAN_TO_UNICODE; the items <<ucp, mr_byte>> of the result.
UNICODE_TO_MAC_ROMAN ==
   LET items == dict_items(MAC_ROMAN_TO_UNICODE) \o <<>>
   IN  dict_items([k \in 1..Len(items) |-> <<items[k][2], items[k][1]>>]) \o <<>>

\* Lines 152-278: the literal, then ASCII_APPROX[cp] = cp - 0xFF01 + 0x21 for
\* cp in range(0xFF01, 0xFF5F); the items <<ucp, approx>> of the result.
ASCII_APPROX ==
   dict_items(ASCII_APPROX_literal
                 \o [k \in 1..(\hFF5F - \hFF01) |->
                       <<\hFF01 + (k - 1), (\hFF01 + (k - 1)) - \hFF01 + \h21>>])
      \o <<>>

\* The items of latin1_ascii.
latin1_ascii_items == dict_items(latin1_ascii) \o <<>>

\* [v] * n: a list of n entries that all hold v.  The list is kept as its
\* length, the value it was created with, and the entries assigned since
\* (by index), which is all that distinguishes it from the list as created.
repeat(v, n) == [len |-> n, fill |-> v, at |-> <<>>]

\* table[k] of the Python list, 0 <= k < len.
entry(t, k) ==
   CASE 0 <= k /\ k < t.len -> IF k \in DOMAIN t.at THEN t.at[k] ELSE t.fill

\* table[k] = v, 0 <= k < len.
assign(t, k, v) ==
   CASE 0 <= k /\ k < t.len ->
           [t EXCEPT !.at = [j \in (DOMAIN @) \cup {k} |-> IF j = k THEN v ELSE @[j]]]

\* Line 287: table = [LOZENGE] * 65536; the first loop is about to start.
TableInit ==
   /\ NoEmit
   /\ NoFunctionCall
   /\ table = repeat(LOZENGE, 65536)
   /\ stage = "ascii"
   /\ item = 0

\* One iteration of a loop over n items is done: the next one, or the next
\* loop.
Advance(n, following) ==
   IF item + 1 < n
   THEN item' = item + 1 /\ stage' = stage
   ELSE item' = 0 /\ stage' = following

\* Lines 290-291: for i in range(128): table[i] = i
fill_ascii ==
   /\ stage = "ascii"
   /\ table' = assign(table, item, item)
   /\ Advance(128, "exact")
   /\ UNCHANGED <<emit_vars, function_vars>>

\* Lines 294-296: the exact Mac Roman reverse mappings.
fill_exact ==
   /\ stage = "exact"
   /\ LET ucp == UNICODE_TO_MAC_ROMAN[item + 1][1]
          mr == UNICODE_TO_MAC_ROMAN[item + 1][2]
      IN  table' = IF ucp < 65536 THEN assign(table, ucp, mr) ELSE table
   /\ Advance(Len(UNICODE_TO_MAC_ROMAN), "approx")
   /\ UNCHANGED <<emit_vars, function_vars>>

\* Lines 299-301: the ASCII approximations.
fill_approx ==
   /\ stage = "approx"
   /\ LET ucp == ASCII_APPROX[item + 1][1]
          approx == ASCII_APPROX[item + 1][2]
      IN  table' = IF ucp < 65536 /\ entry(table, ucp) = LOZENGE
                   THEN assign(table, ucp, approx) ELSE table
   /\ Advance(Len(ASCII_APPROX), "latin1")
   /\ UNCHANGED <<emit_vars, function_vars>>

\* Variant: the Latin-1 fallback written whatever the entry holds.
fill_latin1_unconditional ==
   /\ stage = "latin1"
   /\ LET ucp == latin1_ascii_items[item + 1][1]
          approx == latin1_ascii_items[item + 1][2]
      IN  table' = assign(table, ucp, approx)
   /\ Advance(Len(latin1_ascii_items), "print")
   /\ UNCHANGED <<emit_vars, function_vars>>

\* Lines 318-320: the Latin-1 fallbacks.
fill_latin1 ==
   /\ stage = "latin1"
   /\ LET ucp == latin1_ascii_items[item + 1][1]
          approx == latin1_ascii_items[item + 1][2]
      IN  table' = IF entry(table, ucp) = LOZENGE
                   THEN assign(table, ucp, approx) ELSE table
   /\ Advance(Len(latin1_ascii_items), "print")
   /\ UNCHANGED <<emit_vars, function_vars>>

\* Lines 341-364: the lines of one 256-entry page.
page_lines(t, page) ==
   LET base == page * 256
       page_bytes == [k \in 1..256 |-> entry(t, base + (k - 1))]
       head(note) == Line("page", note, <<format_X(base, 4), format_X(base + 255, 4)>>)
       row_text(row) ==
          join([col \in 1..16 |-> "\\x" \o format_X(entry(t, base + (row * 16) + (col - 1)), 2)],
               1, 16)
   IN  IF \A k \in 1..256 : page_bytes[k] = LOZENGE
       THEN <<head("all unmapped")>>
               \o [r \in 1..16 |->
                     Line("row", "\"",
                          "\\xD7\\xD7\\xD7\\xD7\\xD7\\xD7\\xD7\\xD7\\xD7\\xD7\\xD7\\xD7\\xD7\\xD7\\xD7\\xD7")]
       ELSE <<head(IF page = 0 THEN "ASCII + Latin-1" ELSE "")>>
               \o [r \in 1..16 |-> Line("row", "\"", row_text(r - 1))]

\* Lines 323-366: the header file is printed.
print_table ==
   /\ stage = "print"
   /\ out' = << Line("text", "#pragma once", <<>>),
                Line("text", "#include <stdint.h>", <<>>),
                Line("blank", "", <<>>),
                Line("text", "// printable lozenge character in the Mac Roman encoding", <<>>),
                Line("text", "const char MAC_ROMAN_LOZENGE = 0xD7;", <<>>),
                Line("blank", "", <<>>),
                Line("text", "#define LOZENGE_STR \"\\xD7\"", <<>>),
                Line("blank", "", <<>>),
                Line("text", "#define NONE_STR LOZENGE_STR", <<>>),
                Line("blank", "", <<>>),
                Line("text", "// Unicode BMP (0x0000-0xFFFF) to Mac Roman translation table", <<>>),
                Line("text", "// Characters with exact Mac Roman equivalents use proper encoding.", <<>>),
                Line("text", "// Others get ASCII approximations or lozenge (0xD7) fallback.", <<>>),
                Line("text", "// Generated by tools/generate_unicode_table.py - do not edit manually.", <<>>),
                Line("text", "const char* UNICODE_BMP_NORMALIZER = \"\"", <<>>) >>
             \o list_join([page \in 1..256 |-> page_lines(table, page - 1)], 1, 256)
             \o << Line("text", ";", <<>>) >>
   /\ stage' = "done"
   /\ UNCHANGED <<pc, i, glyph_bitmaps, strike_rows, strike_hex_rows, data, map_index>>
   /\ UNCHANGED <<function_vars, table, item>>

TableNext ==
   \/ fill_ascii
   \/ fill_exact
   \/ fill_approx
   \/ fill_latin1
   \/ print_table

TableSpec == TableInit /\ [][TableNext]_vars

\* The keys of a sequence of dict items, and the value of a key.
Keys(items) == {items[j][1] : j \in 1..Len(items)}

ValueOf(items, key) == items[CHOOSE j \in 1..Len(items) : items[j][1] = key][2]

\* All the fill passes are done.
TableFilled == stage \in {"print", "done"}

\* What the entry of code point k is to hold: itself for ASCII, else its
\* exact Mac Roman byte, else its approximation, else the fallback.
ExactKeys == Keys(UNICODE_TO_MAC_ROMAN)

ApproxKeys == Keys(ASCII_APPROX)

Latin1Keys == Keys(latin1_ascii_items)

ExpectedEntry(k) ==
   IF k < 128 THEN k
   ELSE IF k \in ExactKeys THEN ValueOf(UNICODE_TO_MAC_ROMAN, k)
   ELSE IF k \in ApproxKeys THEN ValueOf(ASCII_APPROX, k)
   ELSE IF k \in Latin1Keys THEN ValueOf(latin1_ascii_items, k)
   ELSE LOZENGE

\* The code points some pass names.
NamedEntries == (0..127) \cup ExactKeys \cup ApproxKeys \cup Latin1Keys

\* A step of the approximation passes changes only entries that hold the
\* fallback.
ApproximationIntoFallbackOnly ==
   stage \in {"approx", "latin1"} =>
      \A k \in NamedEntries :
         entry(table', k) # entry(table, k) => entry(table, k) = LOZENGE

(***************************************************************************)
(* C30: in the generated Unicode to Mac Roman table (65536 entries, each a *)
(* byte) exact Mac Roman equivalents have the highest priority.  After all *)
(* fill passes every code point 0..127 maps to itself; for every Mac Roman *)
(* byte b in 0x80..0xFF the entry of b's Unicode code point is b; an entry *)
(* that has neither an exact equivalent nor an approximation holds the     *)
(* lozenge fallback 0xD7; and an ASCII approximation is written only into  *)
(* an entry that still holds 0xD7.                                         *)
(***************************************************************************)
C30_ExactMappingsFirst ==
   /\ [](TableFilled =>
           /\ table.len = 65536
           /\ \A k \in 0..65535 : entry(table, k) \in 0..255
           /\ \A k \in 0..127 : entry(table, k) = k
           /\ {MAC_ROMAN_TO_UNICODE[j][1] : j \in 1..Len(MAC_ROMAN_TO_UNICODE)} = \h80..\hFF
           /\ \A j \in 1..Len(MAC_ROMAN_TO_UNICODE) :
                 entry(table, MAC_ROMAN_TO_UNICODE[j][2]) = MAC_ROMAN_TO_UNICODE[j][1]
           /\ \A k \in 0..65535 : entry(table, k) = ExpectedEntry(k))
   /\ [][ApproximationIntoFallbackOnly]_vars

\* The finished table: the no-break space keeps its Mac Roman byte 0xCA
\* although the Latin-1 pass names it, the lozenge U+25CA is 0xD7 as an exact
\* mapping, the multiplication sign and the fullwidth A are approximated by
\* x and A, and a CJK ideograph holds the fallback.
C30_Witness ==
   /\ stage = "done"
   /\ entry(table, \h41) = \h41
   /\ entry(table, \h00A0) = \hCA
   /\ \h00A0 \in Latin1Keys
   /\ entry(table, \h25CA) = \hD7
   /\ entry(table, \h00D7) = \h78
   /\ entry(table, \hFF21) = \h41
   /\ entry(table, \h4E00) = LOZENGE
   /\ Len(out) = 15 + (256 * 17) + 1

=============================================================================
